---- MODULE Spec2Model ----
(***************************************************************************)
(* Model of the SkillSync matching backend:                                *)
(*   app/ml/matcher.py     AdvancedSkillMatcher (scoring functions)        *)
(*   app/routes/match.py   find_matches (the ranking request handler),     *)
(*                         find_matches_batch, get_algorithm_info          *)
(*   app/routes/chat.py    ConnectionManager and the websocket handler     *)
(*                                                                         *)
(* Strings are sequences of one-character strings, so that str.lower() is  *)
(* a real conversion.  Scores are exact rationals <<num, den>> in lowest   *)
(* terms (den > 0); round(x, 4) yields an integer count of 1/10000.        *)
(***************************************************************************)
EXTENDS Integers, Sequences, FiniteSets, TLC

VARIABLES
    user,      \* match.py:45   result of get_user_by_username (a record, or NoUser)
    targets,   \* match.py:53   rows of the users query for the target role
    pc,        \* position of the find_matches handler
    idx,       \* match.py:94   1-based position of the for loop in targets
    matches,   \* match.py:89   the list of match dicts built so far
    outcome,   \* how the handler ended: "none", "ok" (returned), "raised"
    calls,     \* number of compute_match_score invocations so far
    envs,      \* per loop iteration, what the environment did (encoder, store)
    self_model, \* matcher.py:35-39  self.model of the matcher: "loaded" or "none"
    call,      \* the last direct call of a scoring function: name, args, result
    matcher_instance, \* matcher.py:334  _matcher_instance: 0 (None) or the number of the instance
    constructed,      \* how many times AdvancedSkillMatcher() has run
    gm,        \* per caller of get_matcher: where it is in the function, what it returned
    previous,  \* what the preceding find_matches invocation returned
    active_connections, \* chat.py:12  manager.active_connections: username -> connection
    ws         \* per websocket connection: its socket and its handler

\* the process-wide state outside one find_matches request
serviceVars == <<matcher_instance, constructed, gm, previous, active_connections, ws>>

vars == <<user, targets, pc, idx, matches, outcome, calls, envs, self_model, call,
          matcher_instance, constructed, gm, previous, active_connections, ws>>

\* every variable but call
matchVars == <<user, targets, pc, idx, matches, outcome, calls, envs, self_model,
               matcher_instance, constructed, gm, previous, active_connections, ws>>

(***************************************************************************)
(* Strings and str.lower()                                                 *)
(***************************************************************************)
UpperCs == <<"A","B","C","D","E","F","G","H","I","J","K","L","M",
             "N","O","P","Q","R","S","T","U","V","W","X","Y","Z">>

LowerCs == <<"a","b","c","d","e","f","g","h","i","j","k","l","m",
             "n","o","p","q","r","s","t","u","v","w","x","y","z">>

\* the lower-case letter of every upper-case letter
LowerTable ==
    [c \in {UpperCs[k] : k \in 1..Len(UpperCs)} |->
        LowerCs[CHOOSE k \in 1..Len(UpperCs) : UpperCs[k] = c]]

\* a mutant of LowerChar: no letter is changed
LowerChar_identity(c) == c

LowerChar(c) == IF c \in DOMAIN LowerTable THEN LowerTable[c] ELSE c

\* a mutant of lower: the identity (a case-sensitive lookup)
lower_identity(s) == s

lower(s) == [k \in 1..Len(s) |-> LowerChar(s[k])]

\* Python's None, and the marker of a key that a dict does not hold
NoneVal == <<"<None>">>

Missing == <<"<missing>">>

\* dict.get(key, default) on a record field that may be absent
dict_get(v, default) == IF v = Missing THEN default ELSE v

(***************************************************************************)
(* Exact rationals                                                         *)
(***************************************************************************)
RECURSIVE GCD(_, _)
GCD(a, b) == IF b = 0 THEN a ELSE GCD(b, a % b)

Abs(x) == IF x < 0 THEN -x ELSE x

Norm(n, d) ==
    LET g == GCD(Abs(n), d) IN IF g = 0 THEN <<0, 1>> ELSE <<n \div g, d \div g>>

RAdd(a, b) ==
    LET g == GCD(a[2], b[2])
        l == (a[2] \div g) * b[2]
    IN  Norm(a[1] * (l \div a[2]) + b[1] * (l \div b[2]), l)

RSub(a, b) == RAdd(a, <<-b[1], b[2]>>)

RMul(a, b) ==
    LET g1 == GCD(Abs(a[1]), b[2])
        g2 == GCD(Abs(b[1]), a[2])
        h1 == IF g1 = 0 THEN 1 ELSE g1
        h2 == IF g2 = 0 THEN 1 ELSE g2
    IN  Norm((a[1] \div h1) * (b[1] \div h2), (a[2] \div h2) * (b[2] \div h1))

RLess(a, b) == a[1] * b[2] < b[1] * a[2]

RLeq(a, b) == a[1] * b[2] <= b[1] * a[2]

\* a mutant of RAbs: the sign is kept
RAbs_identity(a) == a

RAbs(a) == <<Abs(a[1]), a[2]>>

RMax(a, b) == IF RLess(a, b) THEN b ELSE a

Zero == <<0, 1>>

One == <<1, 1>>

InUnit(r) == RLeq(Zero, r) /\ RLeq(r, One)

(***************************************************************************)
(* Experience labels                                                       *)
(***************************************************************************)
S_beginner == <<"b","e","g","i","n","n","e","r">>

S_junior == <<"j","u","n","i","o","r">>

S_intermediate == <<"i","n","t","e","r","m","e","d","i","a","t","e">>

S_senior == <<"s","e","n","i","o","r">>

S_expert == <<"e","x","p","e","r","t">>

S_advanced == <<"a","d","v","a","n","c","e","d">>

S_empty == <<>>

\* matcher.py:182-190
experience_map ==
    (S_beginner :> 1) @@ (S_junior :> 2) @@ (S_intermediate :> 3) @@
    (S_senior :> 4) @@ (S_expert :> 5) @@ (S_advanced :> 5) @@ (S_empty :> 3)

\* a mutant of ExperienceRank: a scale on which 'senior' is the third level
ExperienceRank_senior3(label) ==
    IF lower(label) = S_senior THEN 3
    ELSE IF lower(label) \in DOMAIN experience_map THEN experience_map[lower(label)]
    ELSE 3

\* matcher.py:192-193   experience_map.get(label.lower(), 3)
ExperienceRank(label) ==
    IF lower(label) \in DOMAIN experience_map THEN experience_map[lower(label)] ELSE 3

\* a mutant of ExperienceBucket: equal seniority treated as the ideal gap
ExperienceBucket_zeroIdeal(diff) ==
    IF diff < 0 THEN <<3, 10>>
    ELSE IF diff = 1 \/ diff = 0 THEN <<1, 1>>
    ELSE IF diff = 2 THEN <<9, 10>>
    ELSE IF diff = 3 THEN <<3, 5>>
    ELSE <<2, 5>>

\* matcher.py:200-214 (and 221-230): the if/elif chain over diff
ExperienceBucket(diff) ==
    IF diff < 0 THEN <<3, 10>>
    ELSE IF diff = 1 THEN <<1, 1>>
    ELSE IF diff = 2 THEN <<9, 10>>
    ELSE IF diff = 3 THEN <<3, 5>>
    ELSE <<2, 5>>

\* a mutant of ExperienceDiff: the mentor branch not reversed
ExperienceDiff_sameDirection(user_exp, target_exp, role) == target_exp - user_exp

\* matcher.py:195-198, 216-219
ExperienceDiff(user_exp, target_exp, role) ==
    IF role = "mentee" THEN target_exp - user_exp ELSE user_exp - target_exp

\* matcher.py:162-230.  None.lower() raises AttributeError.
compute_experience_match(user_experience, target_experience, role) ==
    IF user_experience = NoneVal \/ target_experience = NoneVal
    THEN [raised |-> TRUE]
    ELSE LET user_exp   == ExperienceRank(user_experience)
             target_exp == ExperienceRank(target_experience)
         IN  [raised |-> FALSE,
              user_exp |-> user_exp,
              target_exp |-> target_exp,
              value |-> ExperienceBucket(ExperienceDiff(user_exp, target_exp, role))]

(***************************************************************************)
(* Rounding: round(x, 4), round(x, 3) and the '.0%' format round to the    *)
(* nearest unit, an exact half going to the even neighbour                 *)
(***************************************************************************)
RoundHalfEven(r) ==
    LET q   == r[1] \div r[2]
        rem == r[1] - q * r[2]
    IN  IF 2 * rem < r[2] THEN q
        ELSE IF 2 * rem > r[2] THEN q + 1
        ELSE IF q % 2 = 0 THEN q ELSE q + 1

\* round(x, 4) in units of 1/10000   (match.py:135)
Round4(r) == RoundHalfEven(RMul(r, <<10000, 1>>))

\* round(x, 3) in units of 1/1000    (match.py:138-141)
Round3(r) == RoundHalfEven(RMul(r, <<1000, 1>>))

(***************************************************************************)
(* Skill names and the skills table                                        *)
(***************************************************************************)
S_Python == <<"P","y","t","h","o","n">>

S_python == <<"p","y","t","h","o","n">>

S_SQL == <<"S","Q","L">>

S_Leadership == <<"L","e","a","d","e","r","s","h","i","p">>

S_Go == <<"G","o">>

\* match.py:65-66   skill_id -> name, built from the skills table
skill_id_to_name ==
    (1 :> S_Python) @@ (2 :> S_SQL) @@ (3 :> S_Leadership) @@ (4 :> S_Go) @@ (5 :> S_python)

\* user_skills rows whose only skill_id the skills table does not hold
DanglingRows == <<9>>

\* match.py:77-81, 103-107   the names of the rows whose skill_id resolves
ResolveSkillNames(rows) ==
    LET keep == SelectSeq(rows, LAMBDA sid : sid \in DOMAIN skill_id_to_name)
    IN  [k \in 1..Len(keep) |-> skill_id_to_name[keep[k]]]

\* s.lower() of every name of the skills table, computed once
LowerOfName == [n \in {skill_id_to_name[i] : i \in DOMAIN skill_id_to_name} |-> lower(n)]

\* a mutant of LowerSet: the names compared as they are spelled
LowerSet_caseSensitive(skills) == {skills[k] : k \in 1..Len(skills)}

\* set(s.lower() for s in skills)
LowerSet(skills) ==
    {IF skills[k] \in DOMAIN LowerOfName THEN LowerOfName[skills[k]] ELSE lower(skills[k]) :
        k \in 1..Len(skills)}

(***************************************************************************)
(* AdvancedSkillMatcher                                                    *)
(***************************************************************************)
\* a mutant of weights: diversity counts against a match, the sum is still 1
weights_negativeDiversity ==
    [semantic_similarity   |-> <<7, 10>>,
     skill_complementarity |-> <<1, 4>>,
     experience_match      |-> <<1, 5>>,
     skill_diversity       |-> <<-3, 20>>]

\* matcher.py:42-47
weights ==
    [semantic_similarity   |-> <<2, 5>>,
     skill_complementarity |-> <<1, 4>>,
     experience_match      |-> <<1, 5>>,
     skill_diversity       |-> <<3, 20>>]

\* matcher.py:61   np.zeros(384); all-MiniLM-L6-v2 embeds into 384 dimensions
EmbeddingDim == 384

\* matcher.py:80   skills[:10]
BasicCap == 10

Min(a, b) == IF a < b THEN a ELSE b

\* a mutant of basic_encoding: the fallback vector padded to the encoder's dimension
basic_encoding_padded(skills) == [kind |-> "basic", dim |-> EmbeddingDim]

\* matcher.py:77-80   one hash-derived number per skill, at most ten
basic_encoding(skills) == [kind |-> "basic", dim |-> Min(Len(skills), BasicCap)]

\* a mutant of encode_skills: a failing encoder yields the zero vector
encode_skills_zeroOnError(model, skills, raises) ==
    IF skills = <<>> \/ model = "none" \/ raises THEN [kind |-> "zero", dim |-> EmbeddingDim]
    ELSE [kind |-> "model", dim |-> EmbeddingDim]

\* matcher.py:49-75.  model is "loaded" or "none" (self.model is None);
\* raises tells whether self.model.encode raises in this call.
encode_skills(model, skills, raises) ==
    IF skills = <<>> THEN [kind |-> "zero", dim |-> EmbeddingDim]
    ELSE IF model = "none" THEN basic_encoding(skills)
    ELSE IF raises THEN basic_encoding(skills)
    ELSE [kind |-> "model", dim |-> EmbeddingDim]

\* a mutant of compute_semantic_similarity: the shapes are not compared
compute_semantic_similarity_noShapeCheck(embedding1, embedding2, cos) ==
    RMul(RAdd(IF embedding1.kind = "zero" \/ embedding2.kind = "zero" THEN Zero ELSE cos,
              One), <<1, 2>>)

\* a mutant of compute_semantic_similarity: the cosine is returned as it is
compute_semantic_similarity_noRemap(embedding1, embedding2, cos) ==
    IF embedding1.dim # embedding2.dim THEN Zero
    ELSE IF embedding1.kind = "zero" \/ embedding2.kind = "zero" THEN Zero ELSE cos

\* matcher.py:82-98.  cos is sklearn's cosine of the two vectors; it is 0
\* when one of them is the zero vector.
compute_semantic_similarity(embedding1, embedding2, cos) ==
    IF embedding1.dim # embedding2.dim THEN Zero
    ELSE LET sim == IF embedding1.kind = "zero" \/ embedding2.kind = "zero"
                    THEN Zero ELSE cos
         IN  RMul(RAdd(sim, One), <<1, 2>>)

\* a mutant of compute_skill_complementarity: an empty user list is not
\* checked for
compute_skill_complementarity_noEmptyCheck(user_skills, target_skills) ==
    IF target_skills = <<>> THEN Zero
    ELSE Norm(Cardinality(LowerSet(target_skills) \ LowerSet(user_skills)),
              Cardinality(LowerSet(target_skills)))

\* matcher.py:100-124
compute_skill_complementarity(user_skills, target_skills) ==
    IF user_skills = <<>> \/ target_skills = <<>> THEN Zero
    ELSE LET user_set   == LowerSet(user_skills)
             target_set == LowerSet(target_skills)
             complementary_skills == target_set \ user_set
         IN  Norm(Cardinality(complementary_skills), Cardinality(target_set))

\* a mutant of compute_skill_diversity: the curve peaks at a ratio of 0.5
compute_skill_diversity_peakHalf(user_skills, target_skills) ==
    IF user_skills = <<>> \/ target_skills = <<>> THEN Zero
    ELSE LET overlap == LowerSet(user_skills) \cap LowerSet(target_skills)
             total_unique == Cardinality(LowerSet(user_skills) \cup LowerSet(target_skills))
         IN  IF overlap = {} THEN Zero
             ELSE RMax(Zero, RSub(One, RMul(RAbs(RSub(<<1, 2>>,
                                                     Norm(Cardinality(overlap), total_unique))),
                                            <<10, 7>>)))

\* matcher.py:126-160
compute_skill_diversity(user_skills, target_skills) ==
    IF user_skills = <<>> \/ target_skills = <<>> THEN Zero
    ELSE LET user_set   == LowerSet(user_skills)
             target_set == LowerSet(target_skills)
             overlap    == user_set \cap target_set
         IN  IF overlap = {} THEN Zero
             ELSE LET total_unique  == Cardinality(user_set \cup target_set)
                      overlap_ratio == Norm(Cardinality(overlap), total_unique)
                      diversity     == RSub(One, RMul(RAbs(RSub(<<3, 10>>, overlap_ratio)),
                                                      <<10, 7>>))
                  IN  RMax(Zero, diversity)

\* a mutant of WeightedTotal: the weights of the first two components swapped
WeightedTotal_swapped(semantic_score, complementarity_score, experience_score, diversity_score) ==
    RAdd(RAdd(RMul(weights.skill_complementarity, semantic_score),
              RMul(weights.semantic_similarity, complementarity_score)),
         RAdd(RMul(weights.experience_match, experience_score),
              RMul(weights.skill_diversity, diversity_score)))

\* matcher.py:267-273
WeightedTotal(semantic_score, complementarity_score, experience_score, diversity_score) ==
    RAdd(RAdd(RMul(weights.semantic_similarity, semantic_score),
              RMul(weights.skill_complementarity, complementarity_score)),
         RAdd(RMul(weights.experience_match, experience_score),
              RMul(weights.skill_diversity, diversity_score)))

\* matcher.py:232-281.  env is what the encoder does in this call: whether
\* encode raises for the user's and for the target's text, and the cosine
\* of the two vectors.
compute_match_score(model, user_skills, target_skills, user_experience, target_experience, role, env) ==
    LET user_embedding   == encode_skills(model, user_skills, env.uenc = "raises")
        target_embedding == encode_skills(model, target_skills, env.tenc = "raises")
        semantic_score   == compute_semantic_similarity(user_embedding, target_embedding,
                                                        env.cos)
        complementarity_score == compute_skill_complementarity(user_skills, target_skills)
        experience == compute_experience_match(user_experience, target_experience, role)
        diversity_score == compute_skill_diversity(user_skills, target_skills)
    IN  IF experience.raised THEN [raised |-> TRUE]
        ELSE [raised |-> FALSE,
              total |-> WeightedTotal(semantic_score, complementarity_score,
                                      experience.value, diversity_score),
              semantic_similarity   |-> semantic_score,
              skill_complementarity |-> complementarity_score,
              experience_match      |-> experience.value,
              skill_diversity       |-> diversity_score]

\* matcher.py:299-304, 307   the components in dict order, with their phrases
Components ==
    <<[key |-> "semantic_similarity",   phrase |-> "strong skill alignment"],
      [key |-> "skill_complementarity", phrase |-> "complementary skill sets"],
      [key |-> "experience_match",      phrase |-> "compatible experience levels"],
      [key |-> "skill_diversity",       phrase |-> "diverse skill overlap"]>>

\* a mutant of FactorScoresSorted: the factors left in dict order
FactorScoresSorted_unsorted(scores) ==
    [p \in 1..Len(Components) |-> [key |-> Components[p].key,
                                   phrase |-> Components[p].phrase,
                                   score |-> scores[Components[p].key]]]

\* matcher.py:307-308   factor_scores.sort(key=lambda x: x[1], reverse=True);
\* list.sort is stable, also under reverse=True
FactorScoresSorted(scores) ==
    LET n == Len(Components)
        v(k) == scores[Components[k].key]
        pos(k) == Cardinality({j \in 1..n : RLess(v(k), v(j))})
                  + Cardinality({j \in 1..(k - 1) : v(j) = v(k)}) + 1
    IN  [p \in 1..n |-> LET k == CHOOSE k \in 1..n : pos(k) = p
                        IN  [key |-> Components[k].key,
                             phrase |-> Components[k].phrase,
                             score |-> v(k)]]

\* matcher.py:313-315
SkillOverlap(user_skills, target_skills) == LowerSet(user_skills) \cap LowerSet(target_skills)

\* matcher.py:324   list(overlap)[:3]: a set has no order of its own, so
\* any three of the shared names may be the ones listed
OverlapPicks(user_skills, target_skills) ==
    LET overlap == SkillOverlap(user_skills, target_skills)
    IN  {P \in SUBSET overlap : Cardinality(P) = Min(3, Cardinality(overlap))}

\* matcher.py:283-330.  The text is kept as its parts: the percentage of
\* '{total:.0%}', the phrases of the '(based on ...)' clause, the names of
\* the 'Shared interests' clause (pick) and the count of its 'and N more'.
generate_explanation(scores, user_skills, target_skills, pick) ==
    LET factor_scores == FactorScoresSorted(scores)
        top2          == SubSeq(factor_scores, 1, 2)
        kept          == SelectSeq(top2, LAMBDA f : RLess(<<1, 2>>, f.score))
        top_factors   == [k \in 1..Len(kept) |-> kept[k].phrase]
        overlap       == SkillOverlap(user_skills, target_skills)
    IN  [confidence  |-> RoundHalfEven(RMul(scores.total, <<100, 1>>)),
         top_factors |-> top_factors,
         has_shared  |-> overlap # {},
         overlap_list |-> pick,
         more        |-> IF Cardinality(overlap) > 3 THEN Cardinality(overlap) - 3 ELSE 0]

(***************************************************************************)
(* find_matches  (app/routes/match.py)                                     *)
(***************************************************************************)
\* get_user_by_username found no such user (match.py:46)
NoUser == [found |-> FALSE]

\* match.py:50
TargetRole(role) == IF role = "mentee" THEN "mentor" ELSE "mentee"

\* a mutant of AboveThreshold: the threshold is 0.5
AboveThreshold_half(total_score) == RLess(<<1, 2>>, total_score)

\* a mutant of AboveThreshold: the threshold itself is let through
AboveThreshold_inclusive(total_score) == RLeq(<<1, 5>>, total_score)

\* match.py:125   total_score > 0.2
AboveThreshold(total_score) == RLess(<<1, 5>>, total_score)

\* a mutant of SortByScoreDesc: sorted ascending and then reversed, which
\* turns the order of equal scores around
SortByScoreDesc_unstable(ms) ==
    LET n == Len(ms)
        pos(k) == Cardinality({j \in 1..n : ms[j].score > ms[k].score})
                  + Cardinality({j \in (k + 1)..n : ms[j].score = ms[k].score}) + 1
    IN  [p \in 1..n |-> ms[CHOOSE k \in 1..n : pos(k) = p]]

\* match.py:148   matches.sort(key=lambda x: x["score"], reverse=True);
\* list.sort is stable, also under reverse=True
SortByScoreDesc(ms) ==
    LET n == Len(ms)
        pos(k) == Cardinality({j \in 1..n : ms[j].score > ms[k].score})
                  + Cardinality({j \in 1..(k - 1) : ms[j].score = ms[k].score}) + 1
    IN  [p \in 1..n |-> ms[CHOOSE k \in 1..n : pos(k) = p]]

\* match.py:130-143   the dict appended for a candidate
MatchDict(target, target_skill_names, scores, explanation) ==
    [username    |-> target.username,
     name        |-> target.name,
     role        |-> target.role,
     skills      |-> target_skill_names,
     score       |-> Round4(scores.total),
     explanation |-> explanation,
     score_breakdown |->
        [semantic_similarity   |-> Round3(scores.semantic_similarity),
         skill_complementarity |-> Round3(scores.skill_complementarity),
         experience_match      |-> Round3(scores.experience_match),
         skill_diversity       |-> Round3(scores.skill_diversity)]]

\* a mutant of ExceptHandler: the handler gives up on the whole ranking
ExceptHandler_abort(target) == [kind |-> "raise", called |-> TRUE]

\* match.py:145-146   except Exception: logger.error(f"... {target['username']}")
\* The f-string reads target['username'] again: a record without that key
\* raises KeyError inside the handler, and nothing catches that one.
ExceptHandler(target) ==
    IF target.lacks = "username"
    THEN [kind |-> "raise", called |-> TRUE]
    ELSE [kind |-> "caught", called |-> TRUE]

\* match.py:114-146   the try block of one loop iteration
TryBlock(m, user_skill_names, user_experience, role, target, target_skill_names, env) ==
    LET target_experience == dict_get(target.experience_level, S_empty)
        scores == IF env.fault = "score" THEN [raised |-> TRUE]
                  ELSE compute_match_score(m, user_skill_names, target_skill_names,
                                           user_experience, target_experience, role, env)
    IN  IF scores.raised THEN ExceptHandler(target)
        ELSE IF ~AboveThreshold(scores.total) THEN [kind |-> "below", called |-> TRUE]
        ELSE IF env.fault = "explain" THEN ExceptHandler(target)
        ELSE IF target.lacks \in {"username", "name", "role"} THEN ExceptHandler(target)
        ELSE [kind |-> "append", called |-> TRUE,
              item |-> MatchDict(target, target_skill_names, scores,
                                 generate_explanation(scores, user_skill_names,
                                                      target_skill_names, env.pick))]

\* match.py:94-146   one iteration of the loop over targets
Iteration(m, user_skill_names, user_experience, role, target, env) ==
    IF target.lacks = "user_id" THEN [kind |-> "raise", called |-> FALSE]
    ELSE IF env.fetch = "raises" THEN [kind |-> "raise", called |-> FALSE]
    ELSE LET target_skill_names == ResolveSkillNames(target.skill_rows)
         IN  IF target_skill_names = <<>> THEN [kind |-> "skip", called |-> FALSE]
             ELSE TryBlock(m, user_skill_names, user_experience, role, target,
                           target_skill_names, env)

(***************************************************************************)
(* The environment of one loop iteration                                   *)
(***************************************************************************)
\* A world bounds what the environment may do: the injected failures
\* ("fetch": the query for a candidate's skills raises, "score":
\* compute_match_score raises, "explain": generate_explanation raises), the
\* outcomes <<user's text, target's text>> of the two encoder calls, and
\* the cosine values of the encoder's vectors.
\* Orthogonal vectors, and orthogonal but for 1/5000: two totals 0.00004 apart.
BaseWorld ==
    [faults |-> {},
     encs   |-> {<<"ok", "ok">>, <<"ok", "raises">>},
     cos    |-> {Zero, <<1, 5000>>}]

\* what the environment does when nothing fails and nothing is consulted
DefaultEnv ==
    [fetch |-> "ok", uenc |-> "ok", tenc |-> "ok", cos |-> Zero, fault |-> "none", pick |-> {}]

\* the encoder is consulted only where encode_skills calls it, the cosine
\* only where the two shapes agree; hash-derived vectors have no negative
\* entry, so their cosine is not negative
EncoderEnvs(m, user_skill_names, target_skill_names, w) ==
    {e \in [uenc : {"ok", "raises"}, tenc : {"ok", "raises"}, cos : w.cos \cup {Zero}] :
        LET ue == encode_skills(m, user_skill_names, e.uenc = "raises")
            te == encode_skills(m, target_skill_names, e.tenc = "raises")
        IN  /\ IF m = "none" THEN e.uenc = "ok" /\ e.tenc = "ok"
                             ELSE <<e.uenc, e.tenc>> \in w.encs
            /\ IF ue.dim # te.dim THEN e.cos = Zero ELSE e.cos \in w.cos
            /\ (ue.kind = "basic" \/ te.kind = "basic") => RLeq(Zero, e.cos)}

\* the environments of an iteration that reaches the try block
TryEnvs(m, user_skill_names, user_experience, role, target, target_skill_names, w) ==
    LET target_experience == dict_get(target.experience_level, S_empty)
        withEnc == {[DefaultEnv EXCEPT !.uenc = e.uenc, !.tenc = e.tenc, !.cos = e.cos] :
                       e \in EncoderEnvs(m, user_skill_names, target_skill_names, w)}
        explained(env) ==
            LET sc == compute_match_score(m, user_skill_names, target_skill_names,
                                          user_experience, target_experience, role, env)
            IN  ~sc.raised /\ AboveThreshold(sc.total)
        yes == {e \in withEnc : explained(e)}
    IN  (withEnc \ yes)
        \cup {[env EXCEPT !.pick = p] :
                 env \in yes, p \in OverlapPicks(user_skill_names, target_skill_names)}
        \cup {[env EXCEPT !.fault = "explain"] : env \in {e \in yes : "explain" \in w.faults}}
        \cup {[DefaultEnv EXCEPT !.fault = "score"] : x \in w.faults \cap {"score"}}

\* the environments of one iteration
IterationEnvs(m, user_skill_names, user_experience, role, target, w) ==
    IF target.lacks = "user_id" THEN {DefaultEnv}
    ELSE LET target_skill_names == ResolveSkillNames(target.skill_rows)
         IN  (IF target_skill_names = <<>> THEN {DefaultEnv}
              ELSE TryEnvs(m, user_skill_names, user_experience, role, target,
                           target_skill_names, w))
             \cup {[DefaultEnv EXCEPT !.fetch = "raises"] : x \in w.faults \cap {"fetch"}}

(***************************************************************************)
(* The process-wide state when requests are served                         *)
(***************************************************************************)
\* the threads that call get_matcher: the import of routes/match.py, and
\* request handlers
Callers == {"import", "h1", "h2", "h3"}

\* a caller that is not inside get_matcher and has not called it yet
GmIdle == [pc |-> "idle", made |-> 0, ret |-> 0, returned |-> 0]

\* no find_matches invocation has returned yet
NoResult == [outcome |-> "none"]

\* the websocket connections: two of user u (a reconnect) and one of user v
Conns == {"u1", "u2", "v1"}

ChatUser(c) == IF c = "v1" THEN "v" ELSE "u"

\* no request is being handled
NoRequest == [kind |-> "none"]

\* a connection whose handler has not run manager.connect yet
NewSocket(c) ==
    [username |-> ChatUser(c), pc |-> "init", alive |-> TRUE, handled |-> 0,
     req |-> NoRequest]

\* chat.py:12   an empty dict
EmptyDict == [n \in {} |-> "none"]

\* routes/match.py has been imported: the matcher exists; nobody has
\* connected to the chat
ServiceInit ==
    /\ matcher_instance = 1
    /\ constructed = 1
    /\ gm = [t \in Callers |-> GmIdle]
    /\ previous = NoResult
    /\ active_connections = EmptyDict
    /\ ws = [c \in Conns |-> NewSocket(c)]

(***************************************************************************)
(* State machine of one find_matches request                               *)
(***************************************************************************)
MaxPool == 3

Usernames == <<"ana", "bo", "cy", "dee", "eli">>

S_Senior == <<"S","e","n","i","o","r">>

Rita ==
    [found |-> TRUE, user_id |-> 100, username |-> "rita", role |-> "mentee",
     experience_level |-> S_intermediate, skill_rows |-> <<1, 2>>]

\* a requester whose only user_skills row does not resolve
Raj ==
    [found |-> TRUE, user_id |-> 101, username |-> "raj", role |-> "mentee",
     experience_level |-> S_intermediate, skill_rows |-> DanglingRows]

Requesters == {Rita, Raj, NoUser}

\* well-formed rows of the users table
TargetData ==
    {[experience_level |-> S_senior,   skill_rows |-> <<1, 2, 3>>, lacks |-> "none"],
     [experience_level |-> S_Senior,   skill_rows |-> <<2, 1>>,    lacks |-> "none"],
     [experience_level |-> S_beginner, skill_rows |-> <<5, 2>>,    lacks |-> "none"],
     [experience_level |-> Missing,    skill_rows |-> DanglingRows, lacks |-> "none"],
     [experience_level |-> NoneVal,    skill_rows |-> <<4>>,       lacks |-> "none"]}

MakeTarget(k, d, role) ==
    [user_id |-> k, username |-> Usernames[k], name |-> Usernames[k], role |-> role,
     experience_level |-> d.experience_level, skill_rows |-> d.skill_rows, lacks |-> d.lacks]

Pools(data, role) ==
    UNION {{[k \in 1..n |-> MakeTarget(k, f[k], role)] : f \in [1..n -> data]} : n \in 0..MaxPool}

InitWith(requesters, data, models) ==
    /\ user \in requesters
    /\ targets \in (IF user.found THEN Pools(data, TargetRole(user.role)) ELSE {<<>>})
    /\ self_model \in models
    /\ pc = "start"
    /\ idx = 0
    /\ matches = <<>>
    /\ outcome = "none"
    /\ calls = 0
    /\ envs = <<>>
    /\ call = [fn |-> "none"]
    /\ ServiceInit

Init == InitWith(Requesters, TargetData, {"loaded", "none"})

\* a mutant of Begin: the check of the requester's own skills left out
Begin_noSkillCheck ==
    /\ pc = "start"
    /\ IF ~user.found
       THEN pc' = "done" /\ outcome' = "raised" /\ UNCHANGED idx
       ELSE IF targets = <<>>
       THEN pc' = "done" /\ outcome' = "ok" /\ UNCHANGED idx
       ELSE pc' = "loop" /\ outcome' = "none" /\ idx' = 1
    /\ matches' = <<>>
    /\ UNCHANGED <<user, targets, calls, envs, self_model, call>>
    /\ UNCHANGED serviceVars

\* match.py:44-89
Begin ==
    /\ pc = "start"
    /\ IF ~user.found
       THEN pc' = "done" /\ outcome' = "raised" /\ UNCHANGED idx
       ELSE IF targets = <<>> \/ ResolveSkillNames(user.skill_rows) = <<>>
       THEN pc' = "done" /\ outcome' = "ok" /\ UNCHANGED idx
       ELSE pc' = "loop" /\ outcome' = "none" /\ idx' = 1
    /\ matches' = <<>>
    /\ UNCHANGED <<user, targets, calls, envs, self_model, call>>
    /\ UNCHANGED serviceVars

\* match.py:94-146   one iteration of the loop, in world w
Step(w) ==
    /\ pc = "loop"
    /\ idx <= Len(targets)
    /\ LET user_skill_names == ResolveSkillNames(user.skill_rows)
           user_experience  == dict_get(user.experience_level, S_empty)
       IN  \E env \in IterationEnvs(self_model, user_skill_names, user_experience,
                                    user.role, targets[idx], w) :
             LET r == Iteration(self_model, user_skill_names, user_experience,
                                user.role, targets[idx], env)
             IN  /\ envs' = Append(envs, env)
                 /\ calls' = calls + (IF r.called THEN 1 ELSE 0)
                 /\ IF r.kind = "raise"
                    THEN pc' = "done" /\ outcome' = "raised" /\ UNCHANGED <<idx, matches>>
                    ELSE /\ idx' = idx + 1
                         /\ matches' = IF r.kind = "append" THEN Append(matches, r.item)
                                       ELSE matches
                         /\ UNCHANGED <<pc, outcome>>
    /\ UNCHANGED <<user, targets, self_model, call>>
    /\ UNCHANGED serviceVars

LoopStep == Step(BaseWorld)

\* a mutant of Finish: the handler drops the matcher's model when it returns
Finish_unloadsModel ==
    /\ pc = "loop"
    /\ idx > Len(targets)
    /\ matches' = SortByScoreDesc(matches)
    /\ pc' = "done"
    /\ outcome' = "ok"
    /\ self_model' = "none"
    /\ UNCHANGED <<user, targets, idx, calls, envs, call>>
    /\ UNCHANGED serviceVars

\* match.py:148-155
Finish ==
    /\ pc = "loop"
    /\ idx > Len(targets)
    /\ matches' = SortByScoreDesc(matches)
    /\ pc' = "done"
    /\ outcome' = "ok"
    /\ UNCHANGED <<user, targets, idx, calls, envs, self_model, call>>
    /\ UNCHANGED serviceVars

Next == Begin \/ LoopStep \/ Finish

Spec == Init /\ [][Next]_vars

(***************************************************************************)
(* The same request where compute_match_score or generate_explanation may  *)
(* raise for a candidate                                                   *)
(***************************************************************************)
FaultWorld ==
    [faults |-> {"score", "explain"}, encs |-> {<<"ok", "ok">>}, cos |-> {Zero}]

InitFault == InitWith({Rita}, TargetData, {"loaded"})

LoopStepFault == Step(FaultWorld)

NextFault == Begin \/ LoopStepFault \/ Finish

SpecFault == InitFault /\ [][NextFault]_vars

(***************************************************************************)
(* The same request over rows that lack a key, with a store whose query    *)
(* for a candidate's skills may raise                                      *)
(***************************************************************************)
MalformedWorld ==
    [faults |-> {"fetch"}, encs |-> {<<"ok", "ok">>}, cos |-> {Zero}]

MalformedData ==
    {[experience_level |-> S_senior, skill_rows |-> <<1, 2, 3>>, lacks |-> k] :
        k \in {"none", "user_id", "username", "name"}}

InitMalformed == InitWith({Rita}, MalformedData, {"loaded"})

LoopStepMalformed == Step(MalformedWorld)

NextMalformed == Begin \/ LoopStepMalformed \/ Finish

SpecMalformed == InitMalformed /\ [][NextMalformed]_vars

(***************************************************************************)
(* Direct calls of the scoring functions                                   *)
(***************************************************************************)
S_BEGINNER == <<"B","E","G","I","N","N","E","R">>

S_Junior == <<"J","u","n","i","o","r">>

S_Intermediate == <<"I","n","t","e","r","m","e","d","i","a","t","e">>

S_Expert == <<"E","x","p","e","r","t">>

S_ADVANCED == <<"A","D","V","A","N","C","E","D">>

S_guru == <<"g","u","r","u">>

ExperienceLabels ==
    {S_beginner, S_BEGINNER, S_junior, S_Junior, S_intermediate, S_Intermediate,
     S_senior, S_Senior, S_expert, S_Expert, S_advanced, S_ADVANCED, S_empty, S_guru}

Roles == {"mentee", "mentor"}

InitPure ==
    /\ user = NoUser
    /\ targets = <<>>
    /\ self_model = "loaded"
    /\ pc = "idle"
    /\ idx = 0
    /\ matches = <<>>
    /\ outcome = "none"
    /\ calls = 0
    /\ envs = <<>>
    /\ call = [fn |-> "none"]
    /\ ServiceInit

CallExperienceMatch ==
    /\ pc = "idle"
    /\ \E a \in ExperienceLabels \cup {NoneVal}, b \in ExperienceLabels \cup {NoneVal},
          role \in Roles :
         call' = [fn |-> "compute_experience_match",
                  user_experience |-> a, target_experience |-> b, role |-> role,
                  ret |-> compute_experience_match(a, b, role)]
    /\ UNCHANGED matchVars

NextPure == CallExperienceMatch

SpecPure == InitPure /\ [][NextPure]_vars

(***************************************************************************)
(* Direct calls of the set-based analyzers                                 *)
(***************************************************************************)
\* the number of distinct skill names the lists are built from
MaxSkills == 10

\* the largest number of names the two lists of a built pair share
MaxShared == 3

\* the i-th one-letter skill name, in upper or in lower case
SkillName(i, up) == IF up THEN <<UpperCs[i]>> ELSE <<LowerCs[i]>>

NameRun(from, to, up) == [k \in 1..(to - from + 1) |-> SkillName(from + k - 1, up)]

\* a pair of lists with s shared names, a names only the user has and b
\* names only the target has; the target spells the shared names in upper
\* case if up, and repeats its first name in the other case if dup
FamilyPair(s, a, b, up, dup) ==
    LET u == NameRun(1, s + a, FALSE)
        t == NameRun(1, s, up) \o NameRun(s + a + 1, s + a + b, FALSE)
        again == IF s > 0 THEN SkillName(1, ~up) ELSE SkillName(s + a + 1, TRUE)
    IN  [user_skills   |-> u,
         target_skills |-> IF dup /\ t # <<>> THEN t \o <<again>> ELSE t]

SmallNames == {SkillName(1, FALSE), SkillName(1, TRUE), SkillName(2, FALSE)}

\* every list of at most two of the small names
SmallLists ==
    {<<>>} \cup {<<x>> : x \in SmallNames} \cup {<<x, y>> : x \in SmallNames, y \in SmallNames}

FamilyShapes ==
    {sh \in (0..MaxShared) \X (0..MaxSkills) \X (0..MaxSkills) :
        sh[1] + sh[2] + sh[3] <= MaxSkills}

SkillPairs ==
    {FamilyPair(sh[1], sh[2], sh[3], up, dup) :
        sh \in FamilyShapes, up \in BOOLEAN, dup \in BOOLEAN}
    \cup {[user_skills |-> u, target_skills |-> t] : u \in SmallLists, t \in SmallLists}

CallSkillComplementarity ==
    /\ pc = "idle"
    /\ call.fn = "none"
    /\ \E p \in SkillPairs :
         call' = [fn |-> "compute_skill_complementarity",
                  user_skills |-> p.user_skills, target_skills |-> p.target_skills,
                  ret |-> compute_skill_complementarity(p.user_skills, p.target_skills)]
    /\ UNCHANGED matchVars

CallSkillDiversity ==
    /\ pc = "idle"
    /\ call.fn = "none"
    /\ \E p \in SkillPairs :
         call' = [fn |-> "compute_skill_diversity",
                  user_skills |-> p.user_skills, target_skills |-> p.target_skills,
                  ret |-> compute_skill_diversity(p.user_skills, p.target_skills)]
    /\ UNCHANGED matchVars

NextSkills == CallSkillComplementarity \/ CallSkillDiversity

SpecSkills == InitPure /\ [][NextSkills]_vars

(***************************************************************************)
(* Direct calls of the vectorizer, the similarity metric and the combiner   *)
(***************************************************************************)
InitMatcher ==
    /\ user = NoUser
    /\ targets = <<>>
    /\ self_model \in {"loaded", "none"}
    /\ pc = "idle"
    /\ idx = 0
    /\ matches = <<>>
    /\ outcome = "none"
    /\ calls = 0
    /\ envs = <<>>
    /\ call = [fn |-> "none"]
    /\ ServiceInit

\* every list that occurs in a pair of SkillPairs
EncodeLists == {p.user_skills : p \in SkillPairs} \cup {p.target_skills : p \in SkillPairs}

\* the vectors encode_skills can return
Embeddings ==
    {[kind |-> "zero", dim |-> EmbeddingDim], [kind |-> "model", dim |-> EmbeddingDim]}
    \cup {[kind |-> "basic", dim |-> d] : d \in 1..BasicCap}

\* cosines of two vectors, -1 and 1 included
Cosines == {<<-1, 1>>, <<-1, 2>>, Zero, <<1, 5000>>, One}

\* sklearn's cosine of a zero vector and any vector is 0; the entries of
\* two hash-derived vectors are in 0..99, so their cosine is not negative
CosinesOf(embedding1, embedding2) ==
    IF embedding1.kind = "zero" \/ embedding2.kind = "zero" THEN {Zero}
    ELSE IF embedding1.kind = "basic" /\ embedding2.kind = "basic"
         THEN {c \in Cosines : RLeq(Zero, c)}
    ELSE Cosines

CallEncodeSkills ==
    /\ pc = "idle"
    /\ call.fn = "none"
    /\ \E skills \in EncodeLists, raises \in BOOLEAN :
         call' = [fn |-> "encode_skills", skills |-> skills, raises |-> raises,
                  ret |-> encode_skills(self_model, skills, raises)]
    /\ UNCHANGED matchVars

CallSemanticSimilarity ==
    /\ pc = "idle"
    /\ call.fn = "none"
    /\ \E embedding1 \in Embeddings, embedding2 \in Embeddings :
         \E cos \in CosinesOf(embedding1, embedding2) :
            call' = [fn |-> "compute_semantic_similarity",
                     embedding1 |-> embedding1, embedding2 |-> embedding2, cos |-> cos,
                     ret |-> compute_semantic_similarity(embedding1, embedding2, cos)]
    /\ UNCHANGED matchVars

\* component scores the combiner is applied to
ScoreGrid == {Zero, <<3, 10>>, <<1, 2>>, One}

\* matcher.py:267-273 applied to four component scores
CallCombine ==
    /\ pc = "idle"
    /\ call.fn = "none"
    /\ \E s \in ScoreGrid, c \in ScoreGrid, e \in ScoreGrid, d \in ScoreGrid :
         call' = [fn |-> "combine", scores |-> <<s, c, e, d>>,
                  ret |-> WeightedTotal(s, c, e, d)]
    /\ UNCHANGED matchVars

MatchPairs ==
    {[user_skills |-> u, target_skills |-> t] : u \in SmallLists, t \in SmallLists}
    \cup {FamilyPair(MaxShared, 0, MaxSkills - MaxShared, up, dup) :
             up \in BOOLEAN, dup \in BOOLEAN}

MatchEnvs ==
    {[DefaultEnv EXCEPT !.uenc = ue, !.tenc = te, !.cos = cos] :
        ue \in {"ok", "raises"}, te \in {"ok", "raises"}, cos \in {<<-1, 1>>, Zero, One}}

\* a negative cosine takes two vectors of the encoder
EnvFits(model, env) ==
    (model = "none" \/ env.uenc = "raises" \/ env.tenc = "raises") => RLeq(Zero, env.cos)

\* matcher.py:251-253   the two lists encoded and the encodings compared
CallEncodedSimilarity ==
    /\ pc = "idle"
    /\ call.fn = "none"
    /\ \E p \in MatchPairs, env \in {e \in MatchEnvs : EnvFits(self_model, e)} :
         LET user_embedding   == encode_skills(self_model, p.user_skills, env.uenc = "raises")
             target_embedding == encode_skills(self_model, p.target_skills,
                                               env.tenc = "raises")
         IN  call' = [fn |-> "encoded_similarity",
                      user_skills |-> p.user_skills, target_skills |-> p.target_skills,
                      env |-> env,
                      user_embedding |-> user_embedding,
                      target_embedding |-> target_embedding,
                      ret |-> compute_semantic_similarity(user_embedding, target_embedding,
                                                          env.cos)]
    /\ UNCHANGED matchVars

CallMatchScore ==
    /\ pc = "idle"
    /\ call.fn = "none"
    /\ \E p \in MatchPairs, env \in {e \in MatchEnvs : EnvFits(self_model, e)}, role \in Roles,
          user_experience \in {S_beginner, S_empty, NoneVal},
          target_experience \in {S_Senior, S_guru} :
         call' = [fn |-> "compute_match_score",
                  user_skills |-> p.user_skills, target_skills |-> p.target_skills,
                  user_experience |-> user_experience,
                  target_experience |-> target_experience,
                  role |-> role, env |-> env,
                  ret |-> compute_match_score(self_model, p.user_skills, p.target_skills,
                                              user_experience, target_experience, role, env)]
    /\ UNCHANGED matchVars

NextMatcher ==
    \/ CallEncodeSkills
    \/ CallSemanticSimilarity
    \/ CallCombine
    \/ CallEncodedSimilarity
    \/ CallMatchScore

SpecMatcher == InitMatcher /\ [][NextMatcher]_vars

(***************************************************************************)
(* Direct calls of generate_explanation                                    *)
(***************************************************************************)
\* component scores on both sides of the 0.5 of the '(based on ...)' clause
ExplainGrid == {Zero, <<1, 2>>, <<3, 5>>, One}

\* the largest number of shared names of the explained pairs
MaxOverlap == 5

\* pairs of lists with up to MaxOverlap shared names, and pairs of lists of
\* at most one of the small names
ExplainPairs ==
    {FamilyPair(s, a, b, up, FALSE) :
        s \in 0..MaxOverlap, a \in 0..1, b \in 0..1, up \in BOOLEAN}
    \cup {[user_skills |-> u, target_skills |-> t] :
             u \in {l \in SmallLists : Len(l) <= 1}, t \in {l \in SmallLists : Len(l) <= 1}}

CallGenerateExplanation ==
    /\ pc = "idle"
    /\ call.fn = "none"
    /\ \E s \in ExplainGrid, c \in ExplainGrid, e \in ExplainGrid, d \in ExplainGrid,
          p \in ExplainPairs :
         \E pick \in OverlapPicks(p.user_skills, p.target_skills) :
            LET scores == [total |-> WeightedTotal(s, c, e, d),
                           semantic_similarity |-> s, skill_complementarity |-> c,
                           experience_match |-> e, skill_diversity |-> d]
            IN  call' = [fn |-> "generate_explanation", scores |-> scores,
                         user_skills |-> p.user_skills, target_skills |-> p.target_skills,
                         ret |-> generate_explanation(scores, p.user_skills,
                                                      p.target_skills, pick)]
    /\ UNCHANGED matchVars

NextExplain == CallGenerateExplanation \/ CallSkillComplementarity \/ CallSkillDiversity

SpecExplain == InitPure /\ [][NextExplain]_vars

(***************************************************************************)
(* find_matches_batch  (app/routes/match.py)                               *)
(***************************************************************************)
\* the environment of an iteration in which nothing fails: the encoder
\* answers, the vectors are orthogonal, the shared names are all listed
QuietEnv(u, target) ==
    [DefaultEnv EXCEPT !.pick = SkillOverlap(ResolveSkillNames(u.skill_rows),
                                             ResolveSkillNames(target.skill_rows))]

RECURSIVE find_matches_loop(_, _, _, _, _)
\* match.py:94-155   the loop from candidate k on, and the sort
find_matches_loop(m, u, pool, k, acc) ==
    IF k > Len(pool) THEN [raised |-> FALSE, matches |-> SortByScoreDesc(acc)]
    ELSE LET r == Iteration(m, ResolveSkillNames(u.skill_rows),
                            dict_get(u.experience_level, S_empty), u.role,
                            pool[k], QuietEnv(u, pool[k]))
         IN  IF r.kind = "raise" THEN [raised |-> TRUE, error |-> "KeyError"]
             ELSE find_matches_loop(m, u, pool, k + 1,
                                    IF r.kind = "append" THEN Append(acc, r.item) ELSE acc)

\* match.py:29-155 as one call.  broken holds the usernames for whom the
\* query of the candidate pool raises.
find_matches(m, u, pool, broken) ==
    IF ~u.found THEN [raised |-> TRUE, error |-> "400: User not found"]
    ELSE IF u.username \in broken THEN [raised |-> TRUE, error |-> "store error"]
    ELSE IF pool = <<>> \/ ResolveSkillNames(u.skill_rows) = <<>>
    THEN [raised |-> FALSE, matches |-> <<>>]
    ELSE find_matches_loop(m, u, pool, 1, <<>>)

\* a mutant of BatchEntry: a failed request leaves no error text
BatchEntry_noError(r) == [matches |-> IF r.raised THEN <<>> ELSE r.matches]

\* match.py:173-177   the entry of one username
BatchEntry(r) ==
    IF r.raised THEN [matches |-> <<>>, error |-> r.error] ELSE [matches |-> r.matches]

RECURSIVE find_matches_batch_loop(_, _, _, _, _, _)
find_matches_batch_loop(m, usernames, store, broken, k, results) ==
    IF k > Len(usernames) THEN results
    ELSE LET username == usernames[k]
             entry == BatchEntry(find_matches(m, store.users[username], store.pool, broken))
         IN  find_matches_batch_loop(m, usernames, store, broken, k + 1,
                 [n \in DOMAIN results \cup {username} |->
                     IF n = username THEN entry ELSE results[n]])

\* match.py:161-179
find_matches_batch(m, usernames, store, broken) ==
    find_matches_batch_loop(m, usernames, store, broken, 1, <<>>)

\* the longest list of usernames of a batch request
MaxBatch == 3

\* a second mentee with skills: python; beginner
Sam ==
    [found |-> TRUE, user_id |-> 102, username |-> "sam", role |-> "mentee",
     experience_level |-> S_beginner, skill_rows |-> <<5>>]

\* the users table by username; nobody is called ghost
StoredUsers == [n \in {"rita", "sam", "ghost"} |-> CASE n = "rita" -> Rita
                                                       [] n = "sam" -> Sam
                                                       [] OTHER -> NoUser]

BatchTargetData ==
    {[experience_level |-> S_senior, skill_rows |-> <<1, 2, 3>>, lacks |-> "none"],
     [experience_level |-> S_Senior, skill_rows |-> <<2, 1>>,    lacks |-> "none"],
     [experience_level |-> S_senior, skill_rows |-> <<5, 4>>,    lacks |-> "user_id"]}

BatchRequests ==
    UNION {[1..n -> DOMAIN StoredUsers] : n \in 0..MaxBatch}

InitBatch ==
    /\ user = NoUser
    /\ targets \in Pools(BatchTargetData, "mentor")
    /\ self_model = "loaded"
    /\ pc = "idle"
    /\ idx = 0
    /\ matches = <<>>
    /\ outcome = "none"
    /\ calls = 0
    /\ envs = <<>>
    /\ call = [fn |-> "none"]
    /\ ServiceInit

CallFindMatchesBatch ==
    /\ pc = "idle"
    /\ call.fn = "none"
    /\ \E usernames \in BatchRequests, broken \in SUBSET {"rita", "sam"} :
         call' = [fn |-> "find_matches_batch", usernames |-> usernames, broken |-> broken,
                  ret |-> find_matches_batch(self_model, usernames,
                                             [users |-> StoredUsers, pool |-> targets],
                                             broken)]
    /\ UNCHANGED matchVars

NextBatch == CallFindMatchesBatch

SpecBatch == InitBatch /\ [][NextBatch]_vars

(***************************************************************************)
(* Properties of find_matches                                              *)
(***************************************************************************)
Returned == pc = "done" /\ outcome = "ok"

\* the position in the pool of the candidate a match dict describes
PoolPos(m) == CHOOSE k \in 1..Len(targets) : targets[k].username = m.username

InResult(k) == \E p \in 1..Len(matches) : matches[p].username = targets[k].username

UserSkillNames == ResolveSkillNames(user.skill_rows)

TargetSkillNames(k) == ResolveSkillNames(targets[k].skill_rows)

\* the scores of candidate k in the environment its iteration ran in
ScoresOf(k) ==
    compute_match_score(self_model, UserSkillNames, TargetSkillNames(k),
                        dict_get(user.experience_level, S_empty),
                        dict_get(targets[k].experience_level, S_empty),
                        user.role, envs[k])

C2_Membership ==
    (Returned /\ UserSkillNames # <<>>) =>
        \A k \in 1..Len(targets) :
            InResult(k) <=>
                /\ TargetSkillNames(k) # <<>>
                /\ ~ScoresOf(k).raised
                /\ RLess(<<1, 5>>, ScoresOf(k).total)

\* a returned ranking that left out a candidate whose total is exactly 0.2
\* and one without skills, and kept a third
C2_Witness ==
    /\ Returned
    /\ UserSkillNames # <<>>
    /\ Len(targets) = 3
    /\ \E k \in 1..3 : TargetSkillNames(k) = <<>>
    /\ \E k \in 1..3 : /\ TargetSkillNames(k) # <<>>
                       /\ ~ScoresOf(k).raised
                       /\ ScoresOf(k).total = <<1, 5>>
                       /\ ~InResult(k)
    /\ Len(matches) = 1

\* C3: a requester without resolvable skills gets an empty list, for any
\* pool, without an error and without compute_match_score being called.
C3_NoSkillsEmpty ==
    (pc = "done" /\ user.found /\ UserSkillNames = <<>>) =>
        /\ outcome = "ok"
        /\ matches = <<>>
        /\ calls = 0

\* the request of a requester without resolvable skills over a full pool
\* of candidates who have skills has ended
C3_Witness ==
    /\ pc = "done"
    /\ user.found
    /\ UserSkillNames = <<>>
    /\ Len(targets) = MaxPool
    /\ \A k \in 1..Len(targets) : TargetSkillNames(k) # <<>>

\* compute_match_score or generate_explanation raised for candidate k
Failing(k) ==
    /\ TargetSkillNames(k) # <<>>
    /\ \/ envs[k].fault \in {"score", "explain"}
       \/ ScoresOf(k).raised

\* the candidates that did not fail, have skills and a total above 0.2, in
\* pool order, each with its rounded total
RECURSIVE Survivors(_)
Survivors(n) ==
    IF n = 0 THEN <<>>
    ELSE IF /\ TargetSkillNames(n) # <<>>
            /\ ~Failing(n)
            /\ RLess(<<1, 5>>, ScoresOf(n).total)
         THEN Append(Survivors(n - 1),
                     [username |-> targets[n].username,
                      score |-> Round4(ScoresOf(n).total)])
         ELSE Survivors(n - 1)

NameAndScore(ms) ==
    [p \in 1..Len(ms) |-> [username |-> ms[p].username, score |-> ms[p].score]]

\* C4: when compute_match_score or generate_explanation raises for a
\* candidate, the request still returns; the result holds none of the
\* failing candidates and is the ranking of the others: the same
\* candidates, scores and order as for the pool without the failing ones.
C4_FailureIsolated ==
    (pc = "done") =>
        /\ outcome = "ok"
        /\ \A k \in 1..Len(targets) : Failing(k) => ~InResult(k)
        /\ NameAndScore(matches) = SortByScoreDesc(Survivors(Len(targets)))

\* generate_explanation raised for the second of three candidates, and
\* the other two are returned, the third before the first
C4_Witness ==
    /\ Returned
    /\ Len(targets) = 3
    /\ envs[2].fault = "explain"
    /\ Len(matches) = 2
    /\ matches[1].username = targets[3].username
    /\ matches[2].username = targets[1].username

\* the encoder raised on the text of candidate k's skills
EncoderRaisedFor(k) == TargetSkillNames(k) # <<>> /\ envs[k].tenc = "raises"

\* candidate k's total when its semantic similarity is 0.0
TotalWithoutSemantic(k) ==
    WeightedTotal(Zero,
                  compute_skill_complementarity(UserSkillNames, TargetSkillNames(k)),
                  compute_experience_match(dict_get(user.experience_level, S_empty),
                                           dict_get(targets[k].experience_level, S_empty),
                                           user.role).value,
                  compute_skill_diversity(UserSkillNames, TargetSkillNames(k)))

ExperienceRaises(k) ==
    compute_experience_match(dict_get(user.experience_level, S_empty),
                             dict_get(targets[k].experience_level, S_empty),
                             user.role).raised

MatchOf(k) == matches[CHOOSE p \in 1..Len(matches) : matches[p].username = targets[k].username]

\* C5 as stated: a candidate on whose skills the encoder raised is absent
\* from the result.
C5_Original ==
    (Returned /\ UserSkillNames # <<>>) =>
        \A k \in 1..Len(targets) : EncoderRaisedFor(k) => ~InResult(k)

\* C5 amended: a candidate on whose skills the encoder raised is scored
\* with the fallback encoding: against a requester embedding of the
\* encoder's dimension its semantic similarity is 0.0, and it is in the
\* result exactly if its total with that semantic score is above 0.2; the
\* other candidates are in the result with their own scores.
C5_FallbackScored ==
    (Returned /\ UserSkillNames # <<>> /\ self_model = "loaded") =>
        \A k \in 1..Len(targets) :
            /\ (EncoderRaisedFor(k) /\ envs[k].uenc = "ok" /\ ~ExperienceRaises(k)) =>
                  /\ InResult(k) <=> RLess(<<1, 5>>, TotalWithoutSemantic(k))
                  /\ InResult(k) =>
                        /\ MatchOf(k).score = Round4(TotalWithoutSemantic(k))
                        /\ MatchOf(k).score_breakdown.semantic_similarity = 0
            /\ (TargetSkillNames(k) # <<>> /\ envs[k].tenc = "ok" /\ ~ExperienceRaises(k)) =>
                  /\ InResult(k) <=> RLess(<<1, 5>>, ScoresOf(k).total)
                  /\ InResult(k) => MatchOf(k).score = Round4(ScoresOf(k).total)

\* the encoder raised for the first of two candidates; both are returned,
\* the second ahead of the first
C5_Witness ==
    /\ Returned
    /\ self_model = "loaded"
    /\ Len(targets) = 2
    /\ Len(envs) = 2
    /\ EncoderRaisedFor(1)
    /\ envs[2].tenc = "ok"
    /\ Len(matches) = 2
    /\ matches[1].username = targets[2].username
    /\ matches[2].score_breakdown.semantic_similarity = 0

\* C6 as stated: whatever goes wrong for one candidate (a record that
\* lacks user_id, username or name, or a failing query for its skills),
\* the request returns, without that candidate.
C6_Original ==
    (pc = "done") =>
        /\ outcome = "ok"
        /\ \A k \in 1..Len(targets) :
              (targets[k].lacks # "none" \/ envs[k].fetch = "raises") => ~InResult(k)

(***************************************************************************)
(* Properties of compute_experience_match                                  *)
(***************************************************************************)
ExperienceCalled ==
    /\ call.fn = "compute_experience_match"
    /\ ~call.ret.raised

ExperienceCalledWith(a, b, role) ==
    /\ ExperienceCalled
    /\ call.user_experience = a
    /\ call.target_experience = b
    /\ call.role = role

\* C7: for a mentee, with diff = candidate's rank - requester's rank, the
\* result is 0.3 for diff < 0, 1.0 for 1, 0.9 for 2, 0.6 for 3, and 0.4
\* for every other diff: 4 and more, and 0.
C7_MenteeBuckets ==
    (ExperienceCalled /\ call.role = "mentee") =>
        LET diff == call.ret.target_exp - call.ret.user_exp
        IN  /\ (diff < 0) => call.ret.value = <<3, 10>>
            /\ (diff = 1) => call.ret.value = <<1, 1>>
            /\ (diff = 2) => call.ret.value = <<9, 10>>
            /\ (diff = 3) => call.ret.value = <<3, 5>>
            /\ (diff >= 4 \/ diff = 0) => call.ret.value = <<2, 5>>

\* a mentee's call with two empty labels returned 0.4
C7_Witness ==
    /\ ExperienceCalledWith(S_empty, S_empty, "mentee")
    /\ call.ret.target_exp - call.ret.user_exp = 0
    /\ call.ret.value = <<2, 5>>

\* C8 as stated: ("beginner", "senior", mentee) gives 0.9 and
\* ("senior", "beginner", mentee) gives 0.3.
C8_Original ==
    /\ ExperienceCalledWith(S_beginner, S_senior, "mentee") => call.ret.value = <<9, 10>>
    /\ ExperienceCalledWith(S_senior, S_beginner, "mentee") => call.ret.value = <<3, 10>>

\* C8 amended: ("beginner", "senior", mentee) gives 0.6, senior being three
\* ranks above beginner, and ("senior", "beginner", mentee) gives 0.3.
C8_ExactValues ==
    /\ ExperienceCalledWith(S_beginner, S_senior, "mentee") =>
          /\ call.ret.target_exp - call.ret.user_exp = 3
          /\ call.ret.value = <<3, 5>>
    /\ ExperienceCalledWith(S_senior, S_beginner, "mentee") => call.ret.value = <<3, 10>>

\* compute_experience_match("beginner", "senior", "mentee") has returned
C8_Witness == ExperienceCalledWith(S_beginner, S_senior, "mentee")

\* C9: a mentor's result for (a, b) is a mentee's result for (b, a).
C9_MentorIsReversedMentee ==
    (ExperienceCalled /\ call.role = "mentor") =>
        call.ret.value =
            compute_experience_match(call.target_experience, call.user_experience,
                                     "mentee").value

\* a mentor's call with a senior requester and a beginner candidate
\* returned 0.6, where the same pair gives a mentee 0.3
C9_Witness ==
    /\ ExperienceCalledWith(S_senior, S_beginner, "mentor")
    /\ call.ret.value = <<3, 5>>

\* the two strings differ at most in the case of their letters
SameButCase(a, b) ==
    /\ Len(a) = Len(b)
    /\ \A k \in 1..Len(a) :
          \/ a[k] = b[k]
          \/ \E j \in 1..Len(UpperCs) : {a[k], b[k]} = {UpperCs[j], LowerCs[j]}

\* the table of C10
ClaimedRanks ==
    {<<S_beginner, 1>>, <<S_junior, 2>>, <<S_intermediate, 3>>,
     <<S_senior, 4>>, <<S_expert, 5>>, <<S_advanced, 5>>}

ClaimedRank(label) ==
    IF \E e \in ClaimedRanks : SameButCase(label, e[1])
    THEN (CHOOSE e \in ClaimedRanks : SameButCase(label, e[1]))[2]
    ELSE 3

\* C10: each label gets the rank of the table entry it equals but for
\* letter case (beginner 1, junior 2, intermediate 3, senior 4, expert 5,
\* advanced 5), a rank in 1..5; any other label, the empty one too, gets 3.
C10_RankTable ==
    ExperienceCalled =>
        /\ call.ret.user_exp = ClaimedRank(call.user_experience)
        /\ call.ret.target_exp = ClaimedRank(call.target_experience)
        /\ call.ret.user_exp \in 1..5
        /\ call.ret.target_exp \in 1..5

\* a call with 'ADVANCED' and an unknown label has ranked them 5 and 3
C10_Witness ==
    /\ ExperienceCalledWith(S_ADVANCED, S_guru, "mentee")
    /\ call.ret.user_exp = 5
    /\ call.ret.target_exp = 3

(***************************************************************************)
(* Properties of the set-based analyzers                                   *)
(***************************************************************************)
\* the case-folded set of a skill list
FoldedSet(skills) == {lower(skills[k]) : k \in 1..Len(skills)}

ComplementarityCalled == call.fn = "compute_skill_complementarity"

DiversityCalled == call.fn = "compute_skill_diversity"

\* the rational r is the fraction n / d
IsFraction(r, n, d) == r[2] > 0 /\ r[1] * d = n * r[2]

\* C11: compute_skill_complementarity returns 0.0 when either list is
\* empty and otherwise |C \ R| / |C| for the case-folded sets R of the
\* requester and C of the candidate; the result is in [0,1].
C11_Complementarity ==
    ComplementarityCalled =>
        LET R == FoldedSet(call.user_skills)
            C == FoldedSet(call.target_skills)
        IN  /\ (call.user_skills = <<>> \/ call.target_skills = <<>>) => call.ret = Zero
            /\ (call.user_skills # <<>> /\ call.target_skills # <<>>) =>
                  IsFraction(call.ret, Cardinality(C \ R), Cardinality(C))
            /\ InUnit(call.ret)

\* the candidate spells a name of the requester in another case and has
\* one more name: half of its folded names are new to the requester
C11_Witness ==
    /\ ComplementarityCalled
    /\ call.user_skills # <<>>
    /\ \E k \in 1..Len(call.target_skills) :
          /\ call.target_skills[k] # lower(call.target_skills[k])
          /\ lower(call.target_skills[k]) \in {call.user_skills[j] : j \in 1..Len(call.user_skills)}
    /\ call.ret = <<1, 2>>

\* C12 as stated: complementarity is 0 whenever a list is empty, and 1
\* whenever the lists share no skill and the candidate's is non-empty.
C12_Original ==
    ComplementarityCalled =>
        /\ (call.user_skills = <<>> \/ call.target_skills = <<>>) => call.ret = Zero
        /\ (FoldedSet(call.user_skills) \cap FoldedSet(call.target_skills) = {}
            /\ call.target_skills # <<>>) => call.ret = One

\* C12 amended: complementarity is 0 whenever a list is empty (an empty
\* requester list included), and 1 whenever both lists are non-empty and
\* share no case-folded skill.
C12_EmptyAndDisjoint ==
    ComplementarityCalled =>
        /\ (call.user_skills = <<>> \/ call.target_skills = <<>>) => call.ret = Zero
        /\ (FoldedSet(call.user_skills) \cap FoldedSet(call.target_skills) = {}
            /\ call.user_skills # <<>> /\ call.target_skills # <<>>) => call.ret = One

\* an empty requester list against a candidate with two names gave 0
C12_Witness ==
    /\ ComplementarityCalled
    /\ call.user_skills = <<>>
    /\ Len(call.target_skills) = 2
    /\ call.ret = Zero

\* C13: compute_skill_diversity returns 0.0 when either list is empty or
\* the case-folded sets do not intersect, and otherwise
\* max(0, 1 - |0.3 - r| / 0.7) with r = |intersection| / |union|; the
\* result is in [0,1], and it is 0 when the folded sets are identical.
C13_Diversity ==
    DiversityCalled =>
        LET R == FoldedSet(call.user_skills)
            C == FoldedSet(call.target_skills)
            i == Cardinality(R \cap C)
            u == Cardinality(R \cup C)
            \* 1 - |0.3 - i/u| / 0.7  =  (7u - |3u - 10i|) / 7u
            n == 7 * u - Abs(3 * u - 10 * i)
        IN  /\ (call.user_skills = <<>> \/ call.target_skills = <<>> \/ R \cap C = {}) =>
                  call.ret = Zero
            /\ (call.user_skills # <<>> /\ call.target_skills # <<>> /\ R \cap C # {}) =>
                  IsFraction(call.ret, IF n < 0 THEN 0 ELSE n, 7 * u)
            /\ InUnit(call.ret)
            /\ (R = C /\ R # {}) => call.ret = Zero

\* two of three folded names are shared (r = 2/3): the score is 10/21
C13_Witness ==
    /\ DiversityCalled
    /\ Cardinality(FoldedSet(call.user_skills) \cap FoldedSet(call.target_skills)) = 2
    /\ Cardinality(FoldedSet(call.user_skills) \cup FoldedSet(call.target_skills)) = 3
    /\ call.ret = <<10, 21>>

\* C14: diversity is 0 when the lists have no skill in common, and it is
\* 1.0 exactly when 10 * |A /\ B| = 3 * |A \/ B| (overlap ratio 0.3), below
\* 1.0 for every other ratio.
C14_DiversityPeak ==
    DiversityCalled =>
        LET R == FoldedSet(call.user_skills)
            C == FoldedSet(call.target_skills)
        IN  /\ (R \cap C = {}) => call.ret = Zero
            /\ (call.ret = One) <=>
                  (R \cap C # {} /\ 10 * Cardinality(R \cap C) = 3 * Cardinality(R \cup C))
            /\ RLeq(call.ret, One)

\* three of ten folded names are shared and the score is 1.0
C14_Witness ==
    /\ DiversityCalled
    /\ Cardinality(FoldedSet(call.user_skills) \cap FoldedSet(call.target_skills)) = 3
    /\ Cardinality(FoldedSet(call.user_skills) \cup FoldedSet(call.target_skills)) = 10
    /\ call.ret = One

(***************************************************************************)
(* Properties of the combiner, the similarity metric and the vectorizer    *)
(***************************************************************************)
\* compute_match_score was called and returned its dict
MatchScoreReturned == call.fn = "compute_match_score" /\ ~call.ret.raised

\* C15: the total returned by compute_match_score is 0.40 * semantic +
\* 0.25 * complementarity + 0.20 * experience + 0.15 * diversity of the
\* components returned with it; every component and the total are in [0,1].
C15_TotalIsWeightedSum ==
    MatchScoreReturned =>
        /\ call.ret.total =
              RAdd(RAdd(RMul(<<2, 5>>, call.ret.semantic_similarity),
                        RMul(<<1, 4>>, call.ret.skill_complementarity)),
                   RAdd(RMul(<<1, 5>>, call.ret.experience_match),
                        RMul(<<3, 20>>, call.ret.skill_diversity)))
        /\ InUnit(call.ret.semantic_similarity)
        /\ InUnit(call.ret.skill_complementarity)
        /\ InUnit(call.ret.experience_match)
        /\ InUnit(call.ret.skill_diversity)
        /\ InUnit(call.ret.total)

\* a call in which the four components are all positive and all different
C15_Witness ==
    /\ MatchScoreReturned
    /\ RLess(Zero, call.ret.skill_diversity)
    /\ RLess(Zero, call.ret.skill_complementarity)
    /\ call.ret.semantic_similarity = One
    /\ Cardinality({call.ret.semantic_similarity, call.ret.skill_complementarity,
                    call.ret.experience_match, call.ret.skill_diversity}) = 4

CombineCalled == call.fn = "combine"

\* the total of the called scores with the i-th replaced by v
CombineWith(i, v) ==
    LET x == [call.scores EXCEPT ![i] = v] IN WeightedTotal(x[1], x[2], x[3], x[4])

\* C16: the four weights sum to 1.0, and raising one component score with
\* the other three fixed never lowers the total.
C16_WeightsSumMonotone ==
    /\ RAdd(RAdd(weights.semantic_similarity, weights.skill_complementarity),
            RAdd(weights.experience_match, weights.skill_diversity)) = One
    /\ CombineCalled =>
          \A i \in 1..4 : \A v \in ScoreGrid :
              RLeq(call.scores[i], v) => RLeq(call.ret, CombineWith(i, v))

\* the combiner applied to scores of which each can still be raised
C16_Witness ==
    /\ CombineCalled
    /\ \A i \in 1..4 : RLess(call.scores[i], One)
    /\ RLess(Zero, call.ret)
    /\ RLess(call.ret, CombineWith(4, One))

SimilarityCalled == call.fn = "compute_semantic_similarity"

\* C17: compute_semantic_similarity returns 0.0 for two vectors of different
\* dimension, and (cos + 1) / 2 for two vectors of the same dimension.
C17_DimensionCheck ==
    SimilarityCalled =>
        /\ (call.embedding1.dim # call.embedding2.dim) => call.ret = Zero
        /\ (call.embedding1.dim = call.embedding2.dim) =>
              IsFraction(call.ret, call.cos[1] + call.cos[2], 2 * call.cos[2])

\* a vector of the encoder compared with a fallback vector of two entries
C17_Witness ==
    /\ SimilarityCalled
    /\ call.embedding1.kind = "model"
    /\ call.embedding2 = [kind |-> "basic", dim |-> 2]
    /\ call.ret = Zero

EncodedSimilarityCalled == call.fn = "encoded_similarity"

\* C18: for all skill lists, empty ones and fallback encodings included,
\* similarity(encode(A), encode(B)) is in [0,1].
C18_EncodedSimilarityInUnit ==
    EncodedSimilarityCalled => InUnit(call.ret)

\* the fallback encodings of two lists of the same length, cosine 1
C18_Witness ==
    /\ EncodedSimilarityCalled
    /\ call.user_embedding.kind = "basic"
    /\ call.target_embedding.kind = "basic"
    /\ call.user_embedding.dim = call.target_embedding.dim
    /\ call.ret = One

EncodeCalled == call.fn = "encode_skills"

\* C19 as stated: every vector encode_skills returns has the one fixed
\* dimension, the fallback vector included.
C19_Original ==
    EncodeCalled => call.ret.dim = EmbeddingDim

\* the encoder was to be used and was not available
EncoderFailed == self_model = "none" \/ call.raises

\* C20 as stated: when the backend failed to load or raises at call time,
\* encode_skills returns the fallback encoding of the same list.
C20_Original ==
    (EncodeCalled /\ (self_model = "none" \/ (call.raises /\ call.skills # <<>>))) =>
        /\ call.ret.kind = "basic"
        /\ call.ret.dim = Min(Len(call.skills), 10)

\* C20 amended: encode_skills returns a vector for every list; for a
\* non-empty list and a backend that failed to load or raises it is the
\* fallback encoding of that list (one entry per skill, at most ten); for
\* an empty list it is the zero vector of the encoder's dimension whatever
\* the backend's state; and compute_match_score returns its scores when
\* the encoder fails.
C20_FallbackNeverRaises ==
    /\ EncodeCalled =>
          /\ call.ret.kind \in {"zero", "model", "basic"}
          /\ (call.skills # <<>> /\ EncoderFailed) =>
                /\ call.ret.kind = "basic"
                /\ call.ret.dim = Min(Len(call.skills), 10)
          /\ (call.skills = <<>>) => call.ret = [kind |-> "zero", dim |-> 384]
    /\ (call.fn = "compute_match_score" /\ call.user_experience # NoneVal
        /\ call.target_experience # NoneVal) =>
          /\ ~call.ret.raised
          /\ InUnit(call.ret.total)

\* the encoder raised on a list of eleven names: ten fallback entries
C20_Witness ==
    /\ EncodeCalled
    /\ self_model = "loaded"
    /\ call.raises
    /\ Len(call.skills) = 11
    /\ call.ret = [kind |-> "basic", dim |-> 10]

(***************************************************************************)
(* Properties of generate_explanation                                      *)
(***************************************************************************)
ExplanationCalled == call.fn = "generate_explanation"

ComponentKeys ==
    {"semantic_similarity", "skill_complementarity", "experience_match", "skill_diversity"}

\* the component a phrase of the '(based on ...)' clause stands for
KeyOfPhrase ==
    [ph \in {"strong skill alignment", "complementary skill sets",
             "compatible experience levels", "diverse skill overlap"} |->
        CASE ph = "strong skill alignment"       -> "semantic_similarity"
          [] ph = "complementary skill sets"     -> "skill_complementarity"
          [] ph = "compatible experience levels" -> "experience_match"
          [] ph = "diverse skill overlap"        -> "skill_diversity"]

\* C21: the '(based on ...)' clause names the phrases of the components,
\* among the two highest-valued, whose score is above 0.5, in descending
\* order of score; at most two; none when neither of the top two is above 0.5.
C21_BasedOnClause ==
    ExplanationCalled =>
        LET tf == call.ret.top_factors
            sc(k) == call.scores[k]
            named == {KeyOfPhrase[tf[i]] : i \in 1..Len(tf)}
        IN  /\ Len(tf) <= 2
            /\ \A i \in 1..Len(tf) : tf[i] \in DOMAIN KeyOfPhrase
            /\ Cardinality(named) = Len(tf)
            /\ \A k \in named : RLess(<<1, 2>>, sc(k))
            /\ (Len(tf) = 2) => RLeq(sc(KeyOfPhrase[tf[2]]), sc(KeyOfPhrase[tf[1]]))
            /\ \A k \in ComponentKeys \ named :
                  RLess(<<1, 2>>, sc(k)) =>
                      /\ Len(tf) = 2
                      /\ \A j \in named : RLeq(sc(k), sc(j))
            /\ (tf = <<>>) <=> (\A k \in ComponentKeys : RLeq(sc(k), <<1, 2>>))

\* three components are above 0.5 and the clause names diversity (1.0) and
\* then semantic (0.6), which precedes experience (0.6) in the dict
C21_Witness ==
    /\ ExplanationCalled
    /\ call.scores.skill_diversity = One
    /\ call.scores.experience_match = <<3, 5>>
    /\ call.scores.semantic_similarity = <<3, 5>>
    /\ call.scores.skill_complementarity = <<1, 2>>
    /\ call.ret.top_factors = <<"diverse skill overlap", "strong skill alignment">>

\* the names of a list as they are spelled
SpelledSet(skills) == {skills[k] : k \in 1..Len(skills)}

\* C22 as stated: the 'Shared interests' clause is there exactly when the
\* case-folded intersection is non-empty; it lists at most 3 shared names
\* verbatim in their original casing, and an 'N more' suffix exactly when
\* more than 3 are shared, N being the number of shared names not listed.
C22_Original ==
    ExplanationCalled =>
        LET shared == FoldedSet(call.user_skills) \cap FoldedSet(call.target_skills)
            listed == IF call.ret.has_shared THEN call.ret.overlap_list ELSE {}
        IN  /\ call.ret.has_shared <=> (shared # {})
            /\ Cardinality(listed) <= 3
            /\ \A n \in listed :
                  n \in SpelledSet(call.user_skills) \cup SpelledSet(call.target_skills)
            /\ (call.ret.more > 0) <=> (Cardinality(shared) > 3)
            /\ (call.ret.more > 0) => call.ret.more = Cardinality(shared) - Cardinality(listed)

\* the letters of a name, each in the other case
SwapChar(c) ==
    IF \E i \in 1..Len(LowerCs) : LowerCs[i] = c
    THEN UpperCs[CHOOSE i \in 1..Len(LowerCs) : LowerCs[i] = c]
    ELSE IF \E i \in 1..Len(UpperCs) : UpperCs[i] = c
    THEN LowerCs[CHOOSE i \in 1..Len(UpperCs) : UpperCs[i] = c]
    ELSE c

SwapCase(name) == [k \in 1..Len(name) |-> SwapChar(name[k])]

\* the lists that differ from skills in the case of one name, or that hold
\* one of its names once more in the other case
CaseVariants(skills) ==
    {[skills EXCEPT ![k] = SwapCase(skills[k])] : k \in 1..Len(skills)}
    \cup {Append(skills, SwapCase(skills[k])) : k \in 1..Len(skills)}

\* C26: a name replaced by a variant that differs only in letter case, or
\* repeated in another case, changes neither the complementarity, nor the
\* diversity, nor whether the explanation has a 'Shared interests' clause.
C26_CaseInsensitive ==
    /\ ComplementarityCalled =>
          /\ \A v \in CaseVariants(call.user_skills) :
                compute_skill_complementarity(v, call.target_skills) = call.ret
          /\ \A v \in CaseVariants(call.target_skills) :
                compute_skill_complementarity(call.user_skills, v) = call.ret
    /\ DiversityCalled =>
          /\ \A v \in CaseVariants(call.user_skills) :
                compute_skill_diversity(v, call.target_skills) = call.ret
          /\ \A v \in CaseVariants(call.target_skills) :
                compute_skill_diversity(call.user_skills, v) = call.ret
    /\ ExplanationCalled =>
          /\ \A v \in CaseVariants(call.user_skills) :
                (SkillOverlap(v, call.target_skills) # {}) <=> call.ret.has_shared
          /\ \A v \in CaseVariants(call.target_skills) :
                (SkillOverlap(call.user_skills, v) # {}) <=> call.ret.has_shared

\* the candidate spells a shared name in upper case and a second time in
\* lower case: the two spellings count as one of its three skills
C26_Witness ==
    /\ DiversityCalled
    /\ Len(call.target_skills) = 4
    /\ Cardinality(FoldedSet(call.target_skills)) = 3
    /\ call.target_skills[1] # lower(call.target_skills[1])
    /\ call.target_skills[4] = lower(call.target_skills[1])
    /\ lower(call.target_skills[1]) \in SpelledSet(call.user_skills)
    /\ RLess(Zero, call.ret)

(***************************************************************************)
(* Further properties of find_matches                                      *)
(***************************************************************************)
\* candidate k is the candidate of the scenario: Python, SQL, Leadership; senior
ScenarioCandidate(k) ==
    /\ TargetSkillNames(k) = <<S_Python, S_SQL, S_Leadership>>
    /\ targets[k].experience_level = S_senior

\* C23: for the requester with skills Python and SQL, experience
\* intermediate, role mentee, the candidate with skills Python, SQL and
\* Leadership and experience senior has experience score 1.0,
\* complementarity 1/3 and diversity 10/21 (1 - |0.3 - 2/3| / 0.7), and is
\* in the result whatever its semantic score in [0,1] is.
C23_Scenario ==
    (Returned /\ user = Rita) =>
        \A k \in 1..Len(targets) :
            ScenarioCandidate(k) =>
                /\ ~ScoresOf(k).raised
                /\ ScoresOf(k).experience_match = One
                /\ ScoresOf(k).skill_complementarity = <<1, 3>>
                /\ ScoresOf(k).skill_diversity = <<10, 21>>
                /\ InResult(k)
                /\ MatchOf(k).score_breakdown.experience_match = 1000
                /\ MatchOf(k).score_breakdown.skill_complementarity = 333
                /\ MatchOf(k).score_breakdown.skill_diversity = 476
                /\ \A s \in {Zero, <<1, 2>>, One} :
                      RLess(<<1, 5>>, WeightedTotal(s, ScoresOf(k).skill_complementarity,
                                                    ScoresOf(k).experience_match,
                                                    ScoresOf(k).skill_diversity))

\* the scenario's candidate returned with the lowest semantic score, 0.0,
\* and the total 0.3548
C23_Witness ==
    /\ Returned
    /\ user = Rita
    /\ Len(targets) = 1
    /\ ScenarioCandidate(1)
    /\ Len(matches) = 1
    /\ matches[1].score_breakdown.semantic_similarity = 0
    /\ matches[1].score = 3548

\* C27 as stated: a candidate whose experience_level is missing or null is
\* scored (compute_experience_match does not raise) and is in the result
\* when its total is above 0.2.
C27_Original ==
    (Returned /\ UserSkillNames # <<>>) =>
        \A k \in 1..Len(targets) :
            (targets[k].experience_level \in {Missing, NoneVal}
             /\ TargetSkillNames(k) # <<>>) =>
                /\ ~ScoresOf(k).raised
                /\ InResult(k) <=> RLess(<<1, 5>>, ScoresOf(k).total)

(***************************************************************************)
(* Properties of find_matches_batch                                        *)
(***************************************************************************)
BatchCalled == call.fn = "find_matches_batch"

\* what find_matches does for username n alone, on the same store
Alone(n) == find_matches(self_model, StoredUsers[n], targets, call.broken)

\* C28: find_matches_batch returns an entry for every requested username;
\* a username whose request fails gets an empty match list and an error
\* text, and every other username gets what find_matches returns for it.
C28_BatchEntries ==
    BatchCalled =>
        /\ DOMAIN call.ret = {call.usernames[k] : k \in 1..Len(call.usernames)}
        /\ \A n \in DOMAIN call.ret :
              IF Alone(n).raised
              THEN /\ call.ret[n].matches = <<>>
                   /\ "error" \in DOMAIN call.ret[n]
                   /\ call.ret[n].error = Alone(n).error
              ELSE /\ call.ret[n].matches = Alone(n).matches
                   /\ "error" \notin DOMAIN call.ret[n]

\* an unknown username between two requesters, one of whom the store fails
\* for: two entries with an error, and one with two matches
C28_Witness ==
    /\ BatchCalled
    /\ call.usernames = <<"rita", "ghost", "sam">>
    /\ call.broken = {"sam"}
    /\ Len(call.ret["rita"].matches) = 2
    /\ call.ret["ghost"] = [matches |-> <<>>, error |-> "400: User not found"]
    /\ call.ret["sam"] = [matches |-> <<>>, error |-> "store error"]


(***************************************************************************)
(* get_matcher, statement by statement, called from several threads        *)
(***************************************************************************)
MaxCalls == 2

\* matcher.py:334   the module has just been loaded: no instance, no call
InitSingleton ==
    /\ user = NoUser
    /\ targets = <<>>
    /\ pc = "idle"
    /\ idx = 1
    /\ matches = <<>>
    /\ outcome = "none"
    /\ calls = 0
    /\ envs = <<>>
    /\ self_model \in {"loaded", "none"}
    /\ call = [fn |-> "none"]
    /\ matcher_instance = 0
    /\ constructed = 0
    /\ gm = [t \in Callers |-> GmIdle]
    /\ previous = NoResult
    /\ active_connections = EmptyDict
    /\ ws = [c \in Conns |-> NewSocket(c)]

\* everything get_matcher does not touch
singletonFrame ==
    <<user, targets, pc, idx, matches, outcome, calls, envs, self_model, call,
      previous, active_connections, ws>>

\* a caller enters get_matcher without waiting for the import of
\* routes/match.py to finish
GmCall_beforeImport(t) ==
    /\ gm[t].pc = "idle"
    /\ gm[t].returned < (IF t = "import" THEN 1 ELSE MaxCalls)
    /\ gm' = [gm EXCEPT ![t].pc = "check"]
    /\ UNCHANGED <<matcher_instance, constructed>>
    /\ UNCHANGED singletonFrame

\* match.py:18 calls once, while the module is imported; main.py imports the
\* routers before the application serves, so a handler calls only after that
\* call has returned
GmCall(t) ==
    /\ gm[t].pc = "idle"
    /\ gm[t].returned < (IF t = "import" THEN 1 ELSE MaxCalls)
    /\ t # "import" => gm["import"].returned = 1
    /\ gm' = [gm EXCEPT ![t].pc = "check"]
    /\ UNCHANGED <<matcher_instance, constructed>>
    /\ UNCHANGED singletonFrame

\* matcher.py:339   if _matcher_instance is None
GmCheck(t) ==
    /\ gm[t].pc = "check"
    /\ gm' = [gm EXCEPT ![t].pc = IF matcher_instance = 0 THEN "construct" ELSE "return"]
    /\ UNCHANGED <<matcher_instance, constructed>>
    /\ UNCHANGED singletonFrame

\* matcher.py:340   AdvancedSkillMatcher(): a new object; the constructor
\* catches a failing model load (matcher.py:34-39), so it always returns
GmConstruct(t) ==
    /\ gm[t].pc = "construct"
    /\ constructed' = constructed + 1
    /\ gm' = [gm EXCEPT ![t].pc = "assign", ![t].made = constructed + 1]
    /\ UNCHANGED matcher_instance
    /\ UNCHANGED singletonFrame

\* matcher.py:340   _matcher_instance = <the new object>
GmAssign(t) ==
    /\ gm[t].pc = "assign"
    /\ matcher_instance' = gm[t].made
    /\ gm' = [gm EXCEPT ![t].pc = "return"]
    /\ UNCHANGED constructed
    /\ UNCHANGED singletonFrame

\* matcher.py:341   return _matcher_instance
GmReturn(t) ==
    /\ gm[t].pc = "return"
    /\ gm' = [gm EXCEPT ![t].pc = "idle", ![t].ret = matcher_instance,
                        ![t].returned = gm[t].returned + 1]
    /\ UNCHANGED <<matcher_instance, constructed>>
    /\ UNCHANGED singletonFrame

NextSingleton ==
    \E t \in Callers :
        \/ GmCall(t)
        \/ GmCheck(t)
        \/ GmConstruct(t)
        \/ GmAssign(t)
        \/ GmReturn(t)

SpecSingleton == InitSingleton /\ [][NextSingleton]_vars

\* C24: AdvancedSkillMatcher is constructed at most once, and only by the
\* call made while routes/match.py is imported; once any call of get_matcher
\* has returned, exactly one instance has been constructed and the call
\* returned that instance; no handler ever reaches the constructor, in any
\* interleaving.
C24_ConstructedOnce ==
    /\ constructed <= 1
    /\ \A t \in Callers :
        /\ gm[t].returned > 0 => (constructed = 1 /\ gm[t].ret = 1 /\ matcher_instance = 1)
        /\ t # "import" => (gm[t].made = 0 /\ gm[t].pc \notin {"construct", "assign"})
    /\ constructed = 1 => gm["import"].made = 1

\* two handlers are inside get_matcher at the same time, and a third has
\* already got the instance twice
C24_Witness ==
    /\ gm["h1"].pc = "check"
    /\ gm["h2"].pc = "return"
    /\ gm["h3"].returned = 2
    /\ gm["h3"].ret = 1
    /\ constructed = 1


(***************************************************************************)
(* Two find_matches invocations with the same requester and the same       *)
(* stored pool, with other scoring operations between them                 *)
(***************************************************************************)
RepeatData ==
    {[experience_level |-> S_senior,   skill_rows |-> <<1, 2, 3>>, lacks |-> "none"],
     [experience_level |-> S_beginner, skill_rows |-> <<5, 2>>,    lacks |-> "none"]}

InitRepeat == InitWith({Rita, NoUser}, RepeatData, {"loaded", "none"})

\* the encoder may fail for a candidate's text; its vectors are orthogonal
RepeatWorld ==
    [faults |-> {}, encs |-> {<<"ok", "ok">>, <<"ok", "raises">>}, cos |-> {Zero}]

\* match.py:208-225   the keys a caller can tell apart
get_algorithm_info ==
    [algorithm |-> "Advanced Semantic Matcher", version |-> "2.0",
     model |-> "all-MiniLM-L6-v2", weights |-> weights]

\* the first invocation has returned and the second has not begun
Between == pc = "done" /\ previous = NoResult /\ call.fn = "none"

\* match.py:208-225
CallAlgorithmInfo ==
    /\ Between
    /\ call' = [fn |-> "get_algorithm_info", ret |-> get_algorithm_info]
    /\ UNCHANGED matchVars

\* matcher.py:232-281   some candidate of the pool is scored once more, the
\* encoder and the cosine answering in any way the world allows
CallScoreOfCandidate ==
    /\ Between
    /\ user.found
    /\ \E k \in 1..Len(targets) :
         LET user_skill_names   == ResolveSkillNames(user.skill_rows)
             target_skill_names == ResolveSkillNames(targets[k].skill_rows)
             user_experience    == dict_get(user.experience_level, S_empty)
             target_experience  == dict_get(targets[k].experience_level, S_empty)
         IN  /\ user_skill_names # <<>>
             /\ target_skill_names # <<>>
             /\ \E e \in EncoderEnvs(self_model, user_skill_names, target_skill_names, BaseWorld) :
                  call' = [fn |-> "compute_match_score", k |-> k,
                           ret |-> compute_match_score(self_model, user_skill_names,
                                       target_skill_names, user_experience,
                                       target_experience, user.role,
                                       [DefaultEnv EXCEPT !.uenc = e.uenc, !.tenc = e.tenc,
                                                          !.cos = e.cos])]
    /\ UNCHANGED matchVars

\* matcher.py:283-330   the scoring of some candidate is explained once more
CallExplainCandidate ==
    /\ Between
    /\ outcome = "ok"
    /\ Len(envs) = Len(targets)
    /\ \E k \in 1..Len(targets) :
         LET user_skill_names   == ResolveSkillNames(user.skill_rows)
             target_skill_names == ResolveSkillNames(targets[k].skill_rows)
             scores == compute_match_score(self_model, user_skill_names, target_skill_names,
                                           dict_get(user.experience_level, S_empty),
                                           dict_get(targets[k].experience_level, S_empty),
                                           user.role, envs[k])
         IN  /\ target_skill_names # <<>>
             /\ ~scores.raised
             /\ \E p \in OverlapPicks(user_skill_names, target_skill_names) :
                  call' = [fn |-> "generate_explanation", k |-> k,
                           ret |-> generate_explanation(scores, user_skill_names,
                                                        target_skill_names, p)]
    /\ UNCHANGED matchVars

\* match.py:29-155   another requester's whole request over the same pool
CallOtherRequest ==
    /\ Between
    /\ \E u \in {Sam, Raj} :
         call' = [fn |-> "find_matches", username |-> u.username,
                  ret |-> find_matches(self_model, u, targets, {})]
    /\ UNCHANGED matchVars

\* the first invocation's response is kept, and the same request arrives
\* again: a new invocation starts at the top of the handler
Again ==
    /\ pc = "done"
    /\ previous = NoResult
    /\ previous' = [outcome |-> outcome, matches |-> matches]
    /\ pc' = "start"
    /\ UNCHANGED <<user, targets, idx, matches, outcome, calls, envs, self_model, call>>
    /\ UNCHANGED <<matcher_instance, constructed, gm, active_connections, ws>>

\* match.py:94-146   one iteration of the first invocation
FirstStep == previous = NoResult /\ Step(RepeatWorld)

\* match.py:94-146   one iteration of the second invocation: the store
\* returns the same rows and the encoder and the cosine, being functions
\* of their arguments, answer as they did for this candidate the first time
StepAgain ==
    /\ pc = "loop"
    /\ previous # NoResult
    /\ idx <= Len(targets)
    /\ LET r == Iteration(self_model, ResolveSkillNames(user.skill_rows),
                          dict_get(user.experience_level, S_empty),
                          user.role, targets[idx], envs[idx])
       IN  /\ calls' = calls + (IF r.called THEN 1 ELSE 0)
           /\ IF r.kind = "raise"
              THEN pc' = "done" /\ outcome' = "raised" /\ UNCHANGED <<idx, matches>>
              ELSE /\ idx' = idx + 1
                   /\ matches' = IF r.kind = "append" THEN Append(matches, r.item)
                                 ELSE matches
                   /\ UNCHANGED <<pc, outcome>>
    /\ UNCHANGED <<user, targets, envs, self_model, call>>
    /\ UNCHANGED serviceVars

NextRepeat ==
    \/ Begin
    \/ FirstStep
    \/ StepAgain
    \/ Finish
    \/ CallAlgorithmInfo
    \/ CallScoreOfCandidate
    \/ CallExplainCandidate
    \/ CallOtherRequest
    \/ Again

SpecRepeat == InitRepeat /\ [][NextRepeat]_vars

\* the second invocation has returned
RepeatDone == previous # NoResult /\ pc = "done"

\* C25: no step of find_matches, compute_match_score, generate_explanation
\* or get_algorithm_info changes the matcher's model reference or the
\* global singleton, get_algorithm_info reports the weights the matcher was
\* built with, and a second find_matches invocation with the same requester
\* and the same stored pool returns what the first returned, whatever
\* scoring operation ran between the two.
C25_NoSharedWrites ==
    /\ [](RepeatDone => previous = [outcome |-> outcome, matches |-> matches])
    /\ [](call.fn = "get_algorithm_info" => call.ret.weights = weights)
    /\ [][/\ self_model' = self_model
          /\ matcher_instance' = matcher_instance
          /\ constructed' = constructed]_vars

\* a second invocation returned three ranked matches after another
\* requester's request was served in between
C25_Witness ==
    /\ RepeatDone
    /\ outcome = "ok"
    /\ Len(matches) = 3
    /\ call.fn = "find_matches"
    /\ ~call.ret.raised


(***************************************************************************)
(* The chat: ConnectionManager and websocket_endpoint                      *)
(* (app/routes/chat.py)                                                    *)
(*                                                                         *)
(* The handlers are coroutines of one event loop: a handler runs alone     *)
(* from one await to the next, so an action is the code between two        *)
(* awaits.  The awaits are websocket.accept, websocket.receive_json and    *)
(* every send_json.                                                        *)
(***************************************************************************)
\* the requests all handlers together receive
MaxRequests == 1

ChatUsers == {ChatUser(c) : c \in Conns}

\* chat.py:33-35
is_online(conns, username) == username \in DOMAIN conns

\* chat.py:14-16   the assignment after accept
connect(conns, username, c) ==
    [n \in (DOMAIN conns) \cup {username} |-> IF n = username THEN c ELSE conns[n]]

\* chat.py:19-21
disconnect(conns, username) ==
    [n \in (DOMAIN conns) \ {username} |-> conns[n]]

\* chat.py:266-272
online_users(conns) == DOMAIN conns

\* send_json on connection c returns; it raises once the client is gone or
\* the connection's handler has returned
Accepts(c) == ws[c].alive /\ ws[c].pc # "ended"

TotalHandled == ws["u1"].handled + ws["u2"].handled + ws["v1"].handled

\* everything the chat does not touch
chatFrame ==
    <<user, targets, pc, idx, matches, outcome, calls, envs, self_model, call,
      matcher_instance, constructed, gm, previous>>

\* what a client sends: the type, and the fields the branch reads.  An
\* absent to_user is None and an absent text is '' (chat.py:97-98); None
\* and '' are both falsy, so "" stands for either.
ChatRequests ==
    {[kind |-> "message", to_user |-> t, text |-> "hi"] : t \in ChatUsers \cup {""}}
    \cup {[kind |-> "message", to_user |-> "u", text |-> ""]}
    \cup {[kind |-> "typing", to_user |-> t, text |-> ""] : t \in {"v", ""}}
    \cup {[kind |-> "ping", to_user |-> "", text |-> ""]}

\* the bookkeeping of one request
Tracked(d, persisted, was_online) ==
    [kind |-> d.kind, to_user |-> d.to_user, text |-> d.text,
     persisted |-> persisted, was_online |-> was_online, target |-> "none",
     relay |-> "none", status |-> "none", confirms |-> 0, errors |-> 0]

\* chat.py:44-53   the handler starts: accept returns, the connection is
\* registered under its username.  Whether Firebase loaded (chat.py:44-51)
\* shows only where a message is stored, see Receive.
Connect(c) ==
    /\ ws[c].pc = "init"
    /\ ws[c].alive
    /\ ws' = [ws EXCEPT ![c].pc = "recv"]
    /\ active_connections' = connect(active_connections, ws[c].username, c)
    /\ UNCHANGED chatFrame

\* chat.py:53   accept raises: line 53 is outside the try, the handler ends
ConnectFail(c) ==
    /\ ws[c].pc = "init"
    /\ ~ws[c].alive
    /\ ws' = [ws EXCEPT ![c].pc = "ended"]
    /\ UNCHANGED active_connections
    /\ UNCHANGED chatFrame

\* the client goes away
Drop(c) ==
    /\ ws[c].pc # "ended"
    /\ ws[c].alive
    /\ ws' = [ws EXCEPT ![c].alive = FALSE]
    /\ UNCHANGED active_connections
    /\ UNCHANGED chatFrame

\* chat.py:58, 257-259   receive_json raises WebSocketDisconnect
Disconnect(c) ==
    /\ ws[c].pc = "recv"
    /\ ~ws[c].alive
    /\ active_connections' = disconnect(active_connections, ws[c].username)
    /\ ws' = [ws EXCEPT ![c].pc = "ended"]
    /\ UNCHANGED chatFrame

\* chat.py:58, 260-264   receive_json raises on a frame that is not JSON
\* text; the handler returns and the server closes the connection
ReceiveBad(c) ==
    /\ ws[c].pc = "recv"
    /\ ws[c].alive
    /\ active_connections' = disconnect(active_connections, ws[c].username)
    /\ ws' = [ws EXCEPT ![c].pc = "ended", ![c].alive = FALSE]
    /\ UNCHANGED chatFrame

\* a mutant of RelayDone: a failed send to the recipient leaves the
\* recipient registered
RelayDone_keepsEntry(c) ==
    /\ ws[c].pc \in {"relay", "typing"}
    /\ LET r  == ws[c].req
           ok == Accepts(r.target)
       IN  /\ active_connections' = active_connections
           /\ ws' = [ws EXCEPT
                 ![c].pc = IF ws[c].pc = "relay" THEN "confirm" ELSE "recv",
                 ![c].req = [r EXCEPT
                     !.relay = IF ok THEN "ok" ELSE "failed",
                     !.status = IF ws[c].pc # "relay" THEN "none"
                                ELSE IF is_online(active_connections, r.to_user)
                                THEN "delivered" ELSE "sent"]]
    /\ UNCHANGED chatFrame

\* chat.py:58-255   the handler after receive_json returned d, up to its
\* next await.  saved tells whether create_message returned (chat.py:111-124);
\* it did not if firebase_chat is None or if the call raised, and the
\* handler goes on alike in both cases.  conns is the registry at that
\* moment.
AfterReceive(h, d, saved, conns) ==
    LET online == d.to_user # "" /\ is_online(conns, d.to_user)
        got    == [h EXCEPT !.handled = @ + 1]
    IN  CASE d.kind = "message" /\ (d.to_user = "" \/ d.text = "") ->
               \* chat.py:100-105
               [got EXCEPT !.pc = "error", !.req = Tracked(d, FALSE, FALSE)]
          [] d.kind = "message" /\ d.to_user # "" /\ d.text # "" /\ online ->
               \* chat.py:137-138, 24-28
               [got EXCEPT !.pc = "relay",
                           !.req = [Tracked(d, saved, TRUE) EXCEPT
                                       !.target = conns[d.to_user]]]
          [] d.kind = "message" /\ d.to_user # "" /\ d.text # "" /\ ~online ->
               \* chat.py:141-144
               [got EXCEPT !.pc = "confirm",
                           !.req = [Tracked(d, saved, FALSE) EXCEPT !.status = "sent"]]
          [] d.kind = "typing" /\ online ->
               \* chat.py:153-158
               [got EXCEPT !.pc = "typing",
                           !.req = [Tracked(d, FALSE, TRUE) EXCEPT
                                       !.target = conns[d.to_user]]]
          [] d.kind = "typing" /\ ~online ->
               [got EXCEPT !.req = Tracked(d, FALSE, FALSE)]
          [] d.kind = "ping" ->
               \* chat.py:254-255; the other branches that only answer the
               \* requester reach their send_json the same way
               [got EXCEPT !.pc = "reply", !.req = Tracked(d, FALSE, FALSE)]

\* chat.py:58   receive_json returns a request
Receive(c) ==
    /\ ws[c].pc = "recv"
    /\ ws[c].alive
    /\ TotalHandled < MaxRequests
    /\ \E d \in ChatRequests, saved \in BOOLEAN :
         /\ saved => (d.kind = "message" /\ d.to_user # "" /\ d.text # "")
         /\ ws' = [ws EXCEPT ![c] = AfterReceive(ws[c], d, saved, active_connections)]
    /\ UNCHANGED active_connections
    /\ UNCHANGED chatFrame

\* chat.py:24-31   the send_json of send_personal_message returns or raises;
\* chat.py:141-144 the status of the confirmation is computed before the
\* next await
RelayDone(c) ==
    /\ ws[c].pc \in {"relay", "typing"}
    /\ LET r  == ws[c].req
           ok == Accepts(r.target)
           after == IF ok THEN active_connections
                    ELSE disconnect(active_connections, r.to_user)
       IN  /\ active_connections' = after
           /\ ws' = [ws EXCEPT
                 ![c].pc = IF ws[c].pc = "relay" THEN "confirm" ELSE "recv",
                 ![c].req = [r EXCEPT
                     !.relay = IF ok THEN "ok" ELSE "failed",
                     !.status = IF ws[c].pc # "relay" THEN "none"
                                ELSE IF is_online(after, r.to_user)
                                THEN "delivered" ELSE "sent"]]
    /\ UNCHANGED chatFrame

\* the send_json to the requester's own socket returns (back to
\* receive_json) or raises (chat.py:257-264: disconnect, the handler ends)
OwnSendDone(c) ==
    /\ ws[c].pc \in {"confirm", "error", "reply"}
    /\ IF Accepts(c)
       THEN /\ ws' = [ws EXCEPT
                  ![c].pc = "recv",
                  ![c].req.confirms = @ + (IF ws[c].pc = "confirm" THEN 1 ELSE 0),
                  ![c].req.errors = @ + (IF ws[c].pc = "error" THEN 1 ELSE 0)]
            /\ UNCHANGED active_connections
       ELSE /\ ws' = [ws EXCEPT ![c].pc = "ended"]
            /\ active_connections' = disconnect(active_connections, ws[c].username)
    /\ UNCHANGED chatFrame

InitChat ==
    /\ user = NoUser
    /\ targets = <<>>
    /\ pc = "idle"
    /\ idx = 1
    /\ matches = <<>>
    /\ outcome = "none"
    /\ calls = 0
    /\ envs = <<>>
    /\ self_model = "loaded"
    /\ call = [fn |-> "none"]
    /\ ServiceInit

NextChat ==
    \E c \in Conns :
        \/ Connect(c)
        \/ ConnectFail(c)
        \/ Drop(c)
        \/ Disconnect(c)
        \/ ReceiveBad(c)
        \/ Receive(c)
        \/ RelayDone(c)
        \/ OwnSendDone(c)

SpecChat == InitChat /\ [][NextChat]_vars

\* a handler of this username is connected and has not ended
LiveHandler(n) ==
    \E c \in Conns : ws[c].username = n /\ ws[c].pc \notin {"init", "ended"}

\* C29 as stated: a username is reported online (is_online, /online-users)
\* exactly when a handler for that username is connected and has not ended.
C29_Original ==
    \A n \in ChatUsers : (n \in online_users(active_connections)) <=> LiveHandler(n)


\* the event loop resumes a handler whose awaited send has returned or
\* raised, and a send_json always does one of the two
ChatFairness ==
    \A c \in Conns : WF_vars(RelayDone(c)) /\ WF_vars(OwnSendDone(c))

SpecChatFair == InitChat /\ [][NextChat]_vars /\ ChatFairness

\* the connections whose last request is a 'message'
MessageHandlers == {c \in Conns : ws[c].req.kind = "message"}

\* chat.py:100   to_user and text are both non-empty
HasFields(r) == r.to_user # "" /\ r.text # ""

\* the handler is inside the request: at one of its sends
InRequest(c) == ws[c].pc \in {"relay", "typing", "confirm", "error", "reply"}

\* the handler has left the request: it waits for the next one, or it ended
LeftRequest(c) == ws[c].pc \in {"recv", "ended"}

\* what the claim says of the relay, of the status and of a request without
\* its fields
RelayAndStatus(c) ==
    LET r == ws[c].req
    IN  IF HasFields(r)
        THEN /\ r.errors = 0
             /\ ws[c].pc # "relay" => (r.relay # "none" <=> r.was_online)
             /\ r.status = "delivered" => r.relay = "ok"
             /\ r.relay = "failed" => r.status = "sent"
             /\ LeftRequest(c) => r.status \in {"sent", "delivered"}
        ELSE /\ ~r.persisted
             /\ ~r.was_online
             /\ r.relay = "none"
             /\ r.confirms = 0

\* C30 as stated: every 'message' request with its fields gets exactly one
\* confirmation and every one without gets an error reply, with the relay
\* and the status as described.
C30_Original ==
    \A c \in MessageHandlers :
        /\ RelayAndStatus(c)
        /\ LeftRequest(c) =>
              IF HasFields(ws[c].req) THEN ws[c].req.confirms = 1
              ELSE ws[c].req.errors = 1

\* the state part of C30
C30_Answered ==
    \A c \in MessageHandlers :
        LET r == ws[c].req
        IN  /\ RelayAndStatus(c)
            /\ r.confirms <= 1
            /\ r.errors <= 1
            /\ ws[c].pc = "recv" =>
                  IF HasFields(r) THEN r.confirms = 1 ELSE r.errors = 1
            /\ (ws[c].pc = "ended" /\ r.confirms + r.errors = 0) => ~ws[c].alive

\* C30: a 'message' request with a non-empty to_user and text is answered
\* with at most one confirmation, and with exactly one when the handler
\* returns to receiving; the only way it gets none is that the send to the
\* sender's own socket raised, which ends the handler.  This holds whether
\* persistence succeeded, failed or was off.  The message is relayed exactly
\* if the recipient was registered when the handler looked, the status is
\* 'delivered' only if the relay succeeded and 'sent' after a failed or
\* skipped relay.  A request missing to_user or text is answered with one
\* error reply under the same proviso and is neither persisted nor relayed.
\* Every handler inside a request leaves it.
C30_ConfirmedOnce ==
    /\ []C30_Answered
    /\ \A c \in Conns : InRequest(c) ~> LeftRequest(c)

\* the message was not stored, the relay reached the recipient, the sender
\* got its one confirmation with status 'delivered'
C30_Witness ==
    /\ ws["u1"].pc = "recv"
    /\ ws["u1"].req.kind = "message"
    /\ ws["u1"].req.to_user = "v"
    /\ ~ws["u1"].req.persisted
    /\ ws["u1"].req.relay = "ok"
    /\ ws["u1"].req.status = "delivered"
    /\ ws["u1"].req.confirms = 1

====
